---- MODULE Spec2Model ----
(***************************************************************************)
(* tinyvk: the renderer's frame loop (BeginFrame / EndFrame), its          *)
(* swapchain bundle and semaphore pools, the resize / recreate path, and   *)
(* the application main loop that drives them.  The GPU queue, the         *)
(* presentation engine and the window system are the environment.          *)
(*                                                                         *)
(* C++ vectors are functions over 0..n-1.  Handles are integers:           *)
(* 0 is VK_NULL_HANDLE, h > 0 is a live handle, and -1 is the value of a   *)
(* handle after vkDestroy* (a dangling value still stored somewhere).      *)
(***************************************************************************)
EXTENDS Integers, Sequences, FiniteSets, TLC

\* ---------------------------------------------------------------- bounds
\* RendererConfig::maxFramesInFlight ranges over 1..MaxFramesInFlightBound.
MaxFramesInFlightBound == 3
\* VkSurfaceCapabilitiesKHR::minImageCount ranges over 1..MaxMinImageCount.
MaxMinImageCount == 1
\* Frames are numbered 0..MaxFrames-1; the counter saturates at MaxFrames.
MaxFrames == 4
\* vkEnumeratePhysicalDevices reports 0..MaxDevices devices.
MaxDevices == 2
\* A surface reports at most MaxPresentModes present modes.
MaxPresentModes == 3
\* VkPhysicalDeviceMemoryProperties::memoryTypeCount ranges over 0..MaxMemoryTypes.
MaxMemoryTypes == 3
\* App objects are numbered 1..MaxApps.
MaxApps == 3
\* At most MaxRunDepth calls of App::Run are in progress at a time.
MaxRunDepth == 2

VARIABLES
    pc,                          \* position of the CPU thread (App::Run / MainLoop / Renderer)
    m_Config,                    \* RendererConfig (maxFramesInFlight)
    mode,                        \* App::_mode
    m_SwapchainImages,           \* std::vector<VkImage>
    m_SwapchainImageViews,       \* std::vector<VkImageView>
    m_Framebuffers,              \* std::vector<VkFramebuffer>
    m_Frames,                    \* std::vector<FrameData>
    m_ImageAvailableSemaphores,  \* acquire-semaphore pool
    m_RenderFinishedSemaphores,  \* render-finished-semaphore pool
    m_CurrentSemaphoreIndex,
    m_CurrentFrame,
    m_CurrentImageIndex,
    m_FramebufferResized,
    extent,                      \* local `extent` of RecreateSwapchain: TRUE when it is zero-sized
    caller,                      \* which function called RecreateSwapchain
    beginResult,                 \* value returned by BeginFrame in this loop iteration
    acquireResult,               \* local `result` of BeginFrame
    presentResult,               \* local `result` of EndFrame
    m_Swapchain,                 \* VkSwapchainKHR
    m_SwapchainImageFormat,      \* VkFormat the swapchain was created with
    m_RenderPass,                \* VkRenderPass
    m_DepthImage,                \* VkImage of the depth buffer
    m_DepthImageMemory,          \* VkDeviceMemory of the depth buffer
    m_DepthImageView,            \* VkImageView of the depth buffer
    device,                      \* m_Context.GetDevice() (0 before Init and after Cleanup)
    \* ---- environment: GPU, presentation engine, window system
    fenceSignaled,               \* state of each slot's in-flight fence
    gpuQueue,                    \* submitted batches that have not completed, in submission order
    semaphorePending,            \* acquire semaphores signalled and not yet consumed by a completed batch
    imageState,                  \* who owns each swapchain image: "acquired" (application) or "free"
    surfaceCaps,                 \* VkSurfaceCapabilitiesKHR the surface currently reports
    fbZero,                      \* glfwGetFramebufferSize currently reports a zero extent
    eventPending,                \* a framebuffer-size event waits in the GLFW queue
    surfaceFormats,              \* surface formats the device currently reports, in order
    vk,                          \* the driver's objects: live handles per kind, leaks, double destroys
    \* ---- observation of the run (never read by the program)
    hooks,                       \* hooks invoked in this loop iteration, in order
    recreatedBy,                 \* who recreated the swapchain in this loop iteration
    efEntryFrame,                \* m_CurrentFrame when EndFrame was entered (-1: not called)
    efOutcome,                   \* how far the EndFrame of this iteration got
    efFlagAtCheck,               \* m_FramebufferResized as read by EndFrame's present check
    rcResizeDelivered,           \* RecreateSwapchain's WaitEvents dispatched a resize callback
    beginCmdOk,                  \* vkBeginCommandBuffer succeeded in this iteration's BeginFrame
    frameNo,                     \* number of frames submitted so far (saturating)
    allOk,                       \* no BeginFrame returned false and no EndFrame returned early
    slotFrame,                   \* frame number of the last submission of each slot (-1: none)
    waitedFrame,                 \* frame number whose fence the current BeginFrame waited on
    initOk,                      \* App::Initialize ran to its end
    started,                     \* OnStart was invoked
    rcSameSurface,               \* this iteration's recreation found the surface as the bundle was built for
    \* ---- a call of one of the pure selection functions
    call,                        \* the function and its arguments
    returned,                    \* what it returned ("pending" before the call)
    \* ---- the App objects of the process
    _instance,                   \* static App* App::_instance (0: nullptr)
    appAlive,                    \* the App objects constructed and not destroyed
    runStack,                    \* the App objects whose Run is in progress, innermost last
    lastRun,                     \* the latest call of Run: the object, and whether it went past the guard
    \* ---- the frame slots' command buffers
    recording,                   \* slots whose command buffer is in the recording state
    \* ---- a RenderWidget
    _initialized,
    _enabled,
    _needsResize,
    _width,
    _height,
    _imguiTexture,               \* VkDescriptorSet (0: VK_NULL_HANDLE)
    renderTarget,                \* the size-dependent resources: whether they exist, the size
                                 \* they were created with, and a bit that flips at every creation
    wpc,                         \* position inside RenderWidget::Render ("idle": not in it)
    widgetCall,                  \* the member function called last
    imageSubmitted,              \* the latest RenderImage called ImGui::Image
    onRenderFrame                \* what the latest Render found when it invoked OnRenderFrame

progVars == <<pc, m_Config, mode, m_SwapchainImages, m_SwapchainImageViews, m_Framebuffers,
              m_Frames, m_ImageAvailableSemaphores, m_RenderFinishedSemaphores,
              m_CurrentSemaphoreIndex, m_CurrentFrame, m_CurrentImageIndex,
              m_FramebufferResized, extent, caller, beginResult, acquireResult, presentResult>>
envVars == <<fenceSignaled, gpuQueue, semaphorePending, imageState,
             surfaceCaps, fbZero, eventPending>>
obsVars == <<hooks, recreatedBy, efEntryFrame, efOutcome, efFlagAtCheck,
             rcResizeDelivered, beginCmdOk,
             frameNo, allOk, slotFrame, waitedFrame>>
bundleVars == <<m_Swapchain, m_SwapchainImageFormat, m_RenderPass, m_DepthImage,
                m_DepthImageMemory, m_DepthImageView, device, surfaceFormats, vk>>
runVars == <<initOk, started, rcSameSurface>>
pureVars == <<call, returned>>
appVars == <<_instance, appAlive, runStack, lastRun>>
widgetVars == <<_initialized, _enabled, _needsResize, _width, _height, _imguiTexture,
                renderTarget, wpc, widgetCall, imageSubmitted, onRenderFrame>>
vars == <<progVars, envVars, obsVars, bundleVars, runVars, pureVars, appVars, recording,
          widgetVars>>

\* ---------------------------------------------------------------- constants of the source
\* RenderWidget::_width and _height as initialized.
DefaultWidth == 800
DefaultHeight == 600
\* The smallest width and height RenderImage asks for.
MinSize == 32
\* Widths and heights asked for by SetSize calls.
Widths == {MinSize, 64}
Heights == {MinSize}

\* ---------------------------------------------------------------- helpers
Size(v) == Cardinality(DOMAIN v)
Empty == [i \in {} |-> 0]
\* A vector of n freshly created handles.
Created(n) == [i \in 0..(n - 1) |-> i + 1]
\* A stored handle after the object it names was destroyed.
Dangling(h) == IF h > 0 THEN -1 ELSE h
Min(a, b) == IF a < b THEN a ELSE b

AppModes == {"GUI", "Game", "Hybrid"}
\* The surface capabilities the driver may report: maxImageCount 0 means no limit.
CapsSet == {c \in [minImageCount : 1..MaxMinImageCount, maxImageCount : {0, 1}] :
                c.maxImageCount = 0 \/ c.maxImageCount >= c.minImageCount}
\* The surface format lists the device may report (never empty on a suitable device).
SurfaceFormat(f) == [format |-> f, colorSpace |-> "SRGB_NONLINEAR"]
FormatLists == {<<SurfaceFormat("B8G8R8A8_UNORM"), SurfaceFormat("B8G8R8A8_SRGB")>>,
                <<SurfaceFormat("B8G8R8A8_UNORM")>>}
AcquireResults == {"SUCCESS", "SUBOPTIMAL", "OUT_OF_DATE", "ERROR"}
PresentResults == {"SUCCESS", "SUBOPTIMAL", "OUT_OF_DATE", "ERROR"}

\* ---------------------------------------------------------------- the driver's objects
\* Kinds of Vulkan objects the renderer creates and destroys.
Kinds == {"swapchain", "imageView", "framebuffer", "renderPass", "depthImage",
          "depthMemory", "depthView", "imageAvailable", "renderFinished"}
\* The render target of a RenderWidget before CreateRenderTarget.
NoRenderTarget == [live |-> FALSE, width |-> 0, height |-> 0, gen |-> 0]
\* OnRenderFrame has not been invoked.
NotInvoked == [invoked |-> FALSE, needsResize |-> FALSE, width |-> 0, height |-> 0,
               targetWidth |-> 0, targetHeight |-> 0]

\* The kinds whose objects hold a reference to an object of kind k: a
\* framebuffer to its attachments and its render pass, an image view to its
\* image (a swapchain image lives in the swapchain), an image to its memory.
Referrers(k) ==
    CASE k \in {"imageView", "depthView", "renderPass"} -> {"framebuffer"}
      [] k = "swapchain" -> {"imageView"}
      [] k = "depthImage" -> {"depthView"}
      [] k = "depthMemory" -> {"depthImage"}
      [] OTHER -> {}
\* order: the kinds destroyed since the latest CleanupSwapchain began, in order;
\* early: the kinds of which an object was destroyed while an object that
\* refers to it was alive.
NoObjects == [live |-> [k \in Kinds |-> {}], leaked |-> FALSE, twice |-> FALSE,
              order |-> <<>>, early |-> {}]
\* The non-null handles stored in a vector.
Handles(v) == {v[i] : i \in DOMAIN v} \ {0}
\* vkCreate*: the handles become live; a handle created over one that is
\* still live means the earlier object was never destroyed.
VkCreate(b, kind, hs) ==
    [b EXCEPT !.live[kind] = @ \cup hs,
              !.leaked = @ \/ (hs \cap b.live[kind] # {})]
\* vkDestroy* on each of the handles (a null handle is skipped).
VkDestroy(b, kind, hs) ==
    [b EXCEPT !.live[kind] = @ \ hs,
              !.twice = @ \/ ((hs \ {0}) \ b.live[kind] # {}),
              !.order = IF hs \ {0} # {} THEN Append(@, kind) ELSE @,
              !.early = IF hs \ {0} # {} /\ (\E r \in Referrers(kind) : b.live[r] # {})
                        THEN @ \cup {kind} ELSE @]

\* ---------------------------------------------------------------- pure parts of the renderer
\* Renderer::ChooseSwapSurfaceFormat.
ChooseSwapSurfaceFormat(availableFormats) ==
    LET hits == {i \in 1..Len(availableFormats) :
                    /\ availableFormats[i].format = "B8G8R8A8_SRGB"
                    /\ availableFormats[i].colorSpace = "SRGB_NONLINEAR"}
    IN IF hits # {}
       THEN availableFormats[CHOOSE i \in hits : \A j \in hits : i <= j]
       ELSE availableFormats[1]

ImageCount_Grow(caps) == Size(m_SwapchainImages) + 1
\* Renderer::CreateSwapchain, the image count requested from the driver.
ImageCount(caps) ==
    LET imageCount == caps.minImageCount + 1
    IN IF caps.maxImageCount > 0 /\ imageCount > caps.maxImageCount
       THEN caps.maxImageCount
       ELSE imageCount

\* Renderer::CreateSyncObjects: size of both semaphore pools.
SyncSemaphoreCount(images) == Size(images) + 1

RecreateSemaphoreCount_Stale(images, oldPool) == Size(oldPool)
\* Renderer::RecreateSwapchain: size of both semaphore pools after the rebuild.
RecreateSemaphoreCount(images, oldPool) == Size(images) + 1

\* vkResetCommandBuffer and a successful vkBeginCommandBuffer on a slot's
\* command buffer.
BeginRecording(rec, slot) == rec \cup {slot}
EndRecording_Skip(rec, slot) == rec
\* vkEndCommandBuffer on a slot's command buffer: it leaves the recording
\* state, for the executable state or, when the call fails, the invalid one.
EndRecording(rec, slot) == rec \ {slot}

NextSemaphoreIndex_ByFrame(index, poolSize) == (m_CurrentFrame + 1) % poolSize
\* Renderer::BeginFrame: rotation of m_CurrentSemaphoreIndex.
NextSemaphoreIndex(index, poolSize) == (index + 1) % poolSize

NextFrame_Stuck(frame, maxFramesInFlight) == frame
\* Renderer::EndFrame: rotation of m_CurrentFrame.
NextFrame(frame, maxFramesInFlight) == (frame + 1) % maxFramesInFlight

AcquirePolicy_Eager(result) ==
    IF result \in {"OUT_OF_DATE", "SUBOPTIMAL"} THEN "recreate"
    ELSE IF result # "SUCCESS" THEN "fail"
    ELSE "proceed"
AcquirePolicy_NoRecreate(result) ==
    IF result \notin {"SUCCESS", "SUBOPTIMAL"} THEN "fail" ELSE "proceed"
\* Renderer::BeginFrame: what the result of vkAcquireNextImageKHR leads to.
AcquirePolicy(result) ==
    IF result = "OUT_OF_DATE" THEN "recreate"
    ELSE IF result # "SUCCESS" /\ result # "SUBOPTIMAL" THEN "fail"
    ELSE "proceed"

PresentNeedsRecreate_IgnoreFlag(result, resized) ==
    result = "OUT_OF_DATE" \/ result = "SUBOPTIMAL"
\* Renderer::EndFrame: the present check.
PresentNeedsRecreate(result, resized) ==
    result = "OUT_OF_DATE" \/ result = "SUBOPTIMAL" \/ resized

RenderGate_Always(began) == TRUE
\* App::MainLoop: `if (_renderer->BeginFrame())`.
RenderGate(began) == began

FenceWaitDone_NoWait(slot) == TRUE
\* vkWaitForFences(frame.inFlightFence, UINT64_MAX) can return.
FenceWaitDone(slot) == fenceSignaled[slot]

RenderHooks_UIFirst(m) ==
    <<"OnPreRender", "ImGuiBegin", "OnUI", "WidgetRender", "ImGuiEnd", "OnRender", "OnPostRender">>
\* App::MainLoop: the hooks between BeginFrame and EndFrame, in order.
RenderHooks(m) ==
    <<"OnPreRender">>
    \o (IF m \in {"Game", "Hybrid"} THEN <<"OnRender">> ELSE <<>>)
    \o (IF m \in {"GUI", "Hybrid"}
        THEN <<"ImGuiBegin", "OnUI", "WidgetRender", "ImGuiEnd">> ELSE <<>>)
    \o <<"OnPostRender">>

IsMinimized_Never(zero) == FALSE
\* Window::IsMinimized over the framebuffer extent the window reports.
IsMinimized(zero) == zero

OnResize_Ignore(resized, pending) == resized
\* Window::PollEvents / Window::WaitEvents dispatching the framebuffer-size
\* callback, which App::Initialize wires to Renderer::OnResize.
OnResize(resized, pending) == IF pending THEN TRUE ELSE resized

\* The frame numbering of the observation stops: at the first frame that is not
\* begun and ended successfully, and when the counter saturates.
StopNumbering ==
    /\ allOk' = FALSE
    /\ frameNo' = MaxFrames
    /\ slotFrame' = [s \in DOMAIN slotFrame |-> -1]

\* ---------------------------------------------------------------- initial state
\* The members of a default-constructed Renderer and App, and the environment
\* before the run.
InitMembers ==
    /\ m_Swapchain = 0
    /\ m_SwapchainImageFormat = "UNDEFINED"
    /\ m_RenderPass = 0
    /\ m_DepthImage = 0
    /\ m_DepthImageMemory = 0
    /\ m_DepthImageView = 0
    /\ device = 0
    /\ surfaceFormats = <<>>
    /\ vk = NoObjects
    /\ initOk = FALSE
    /\ started = FALSE
    /\ rcSameSurface = FALSE
    /\ recording = {}
    /\ _initialized = FALSE
    /\ _enabled = TRUE
    /\ _needsResize = FALSE
    /\ _width = DefaultWidth
    /\ _height = DefaultHeight
    /\ _imguiTexture = 0
    /\ renderTarget = NoRenderTarget
    /\ wpc = "idle"
    /\ widgetCall = "none"
    /\ imageSubmitted = FALSE
    /\ onRenderFrame = NotInvoked
    /\ _instance = 0
    /\ appAlive = {}
    /\ runStack = <<>>
    /\ lastRun = [app |-> 0, entered |-> FALSE]
    /\ m_SwapchainImages = Empty
    /\ m_SwapchainImageViews = Empty
    /\ m_Framebuffers = Empty
    /\ m_Frames = Empty
    /\ m_ImageAvailableSemaphores = Empty
    /\ m_RenderFinishedSemaphores = Empty
    /\ m_CurrentSemaphoreIndex = 0
    /\ m_CurrentFrame = 0
    /\ m_CurrentImageIndex = 0
    /\ m_FramebufferResized = FALSE
    /\ extent = FALSE
    /\ caller = "none"
    /\ beginResult = "none"
    /\ acquireResult = "none"
    /\ presentResult = "none"
    /\ fenceSignaled = Empty
    /\ gpuQueue = <<>>
    /\ semaphorePending = Empty
    /\ imageState = Empty
    /\ surfaceCaps = [minImageCount |-> 0, maxImageCount |-> 0]
    /\ fbZero = FALSE
    /\ eventPending = FALSE
    /\ hooks = <<>>
    /\ recreatedBy = "none"
    /\ efEntryFrame = -1
    /\ efOutcome = "none"
    /\ efFlagAtCheck = FALSE
    /\ rcResizeDelivered = FALSE
    /\ beginCmdOk = TRUE
    /\ frameNo = 0
    /\ allOk = TRUE
    /\ slotFrame = Empty
    /\ waitedFrame = -1

\* No pure-function call is made in the runs of the frame loop.
NoCall == [fn |-> "none"]

Init ==
    /\ pc = "run"
    /\ m_Config \in [maxFramesInFlight : 1..MaxFramesInFlightBound]
    /\ mode = "Hybrid"
    /\ call = NoCall
    /\ returned = "none"
    /\ InitMembers

\* ---------------------------------------------------------------- creation and destruction of the bundle
\* Renderer::CleanupSwapchain: what it destroys.
CleanupSwapchain_ViewsFirst(b) ==
    IF device = 0 THEN b
    ELSE LET b1 == VkDestroy([b EXCEPT !.order = <<>>], "depthView", {m_DepthImageView})
             b2 == VkDestroy(b1, "depthImage", {m_DepthImage})
             b3 == VkDestroy(b2, "depthMemory", {m_DepthImageMemory})
             b4 == VkDestroy(b3, "imageView", Handles(m_SwapchainImageViews))
             b5 == VkDestroy(b4, "framebuffer", Handles(m_Framebuffers))
             b6 == VkDestroy(b5, "renderPass", {m_RenderPass})
         IN VkDestroy(b6, "swapchain", {m_Swapchain})
CleanupSwapchain(b) ==
    IF device = 0 THEN b
    ELSE LET b1 == VkDestroy([b EXCEPT !.order = <<>>], "depthView", {m_DepthImageView})
             b2 == VkDestroy(b1, "depthImage", {m_DepthImage})
             b3 == VkDestroy(b2, "depthMemory", {m_DepthImageMemory})
             b4 == VkDestroy(b3, "framebuffer", Handles(m_Framebuffers))
             b5 == VkDestroy(b4, "renderPass", {m_RenderPass})
             b6 == VkDestroy(b5, "imageView", Handles(m_SwapchainImageViews))
         IN VkDestroy(b6, "swapchain", {m_Swapchain})

DestroyPools_Skip(b) == b
DestroyPools_Uncleared(b) ==
    VkDestroy(VkDestroy(b, "imageAvailable", {1}), "renderFinished", {1})
\* Renderer::RecreateSwapchain / Renderer::Cleanup: both semaphore pools are destroyed.
DestroyPools(b) ==
    VkDestroy(VkDestroy(b, "imageAvailable", Handles(m_ImageAvailableSemaphores)),
              "renderFinished", Handles(m_RenderFinishedSemaphores))

\* CreateSwapchain, CreateImageViews, CreateDepthResources, CreateRenderPass,
\* CreateFramebuffers, every creation succeeding.
CreateBundle(b, images) ==
    LET b1 == VkCreate(b, "swapchain", {1})
        b2 == VkCreate(b1, "imageView", Handles(Created(Size(images))))
        b3 == VkCreate(b2, "depthImage", {1})
        b4 == VkCreate(b3, "depthMemory", {1})
        b5 == VkCreate(b4, "depthView", {1})
        b6 == VkCreate(b5, "renderPass", {1})
    IN VkCreate(b6, "framebuffer", Handles(Created(Size(images))))

\* The vkCreateSemaphore loop over both pools.
CreatePools(b, count) ==
    VkCreate(VkCreate(b, "imageAvailable", Handles(Created(count))),
             "renderFinished", Handles(Created(count)))

\* ---------------------------------------------------------------- App::Run
\* App::Run -> App::Initialize -> Renderer::Init (every creation succeeds),
\* then OnStart and entry into MainLoop.
AppRun ==
    /\ pc = "run"
    /\ \E caps \in CapsSet, formats \in FormatLists :
       LET images == Created(ImageCount(caps))
           n == m_Config.maxFramesInFlight
       IN /\ surfaceCaps' = caps
          /\ surfaceFormats' = formats
          /\ m_SwapchainImageFormat' = ChooseSwapSurfaceFormat(formats).format
          /\ m_SwapchainImages' = images
          /\ m_SwapchainImageViews' = Created(Size(images))
          /\ m_Framebuffers' = Created(Size(images))
          /\ m_Frames' = [s \in 0..(n - 1) |->
                            [commandBuffer |-> s + 1,
                             inFlightFence |-> s + 1,
                             imageAvailableSemaphore |-> 0,
                             renderFinishedSemaphore |-> 0]]
          /\ m_ImageAvailableSemaphores' = Created(SyncSemaphoreCount(images))
          /\ m_RenderFinishedSemaphores' = Created(SyncSemaphoreCount(images))
          /\ m_CurrentSemaphoreIndex' = 0
          /\ fenceSignaled' = [s \in 0..(n - 1) |-> TRUE]
          /\ slotFrame' = [s \in 0..(n - 1) |-> -1]
          /\ imageState' = [i \in DOMAIN images |-> "free"]
          /\ semaphorePending' = [i \in 0..(SyncSemaphoreCount(images) - 1) |-> FALSE]
          /\ vk' = CreatePools(CreateBundle(vk, images), SyncSemaphoreCount(images))
    /\ device' = 1
    /\ m_Swapchain' = 1
    /\ m_RenderPass' = 1
    /\ m_DepthImage' = 1
    /\ m_DepthImageMemory' = 1
    /\ m_DepthImageView' = 1
    /\ initOk' = TRUE
    /\ started' = TRUE
    /\ pc' = "loop"
    /\ UNCHANGED <<pureVars, appVars, widgetVars, recording, rcSameSurface, m_Config, mode, m_CurrentFrame, m_CurrentImageIndex, m_FramebufferResized,
                   extent, caller, beginResult, acquireResult, presentResult,
                   gpuQueue, fbZero, eventPending,
                   hooks, recreatedBy, efEntryFrame, efOutcome, efFlagAtCheck, rcResizeDelivered, beginCmdOk,
                   frameNo, allOk, waitedFrame>>

\* App::Run when Renderer::Init fails at its first step (m_Context.Init finds
\* no usable device): App::Initialize logs and returns, and App::Run goes on
\* to OnStart and MainLoop.
AppRun_InitFailed ==
    /\ pc = "run"
    /\ initOk' = FALSE
    /\ started' = TRUE
    /\ pc' = "uninit_loop"
    /\ UNCHANGED <<m_Config, mode, m_SwapchainImages, m_SwapchainImageViews, m_Framebuffers,
                   m_Frames, m_ImageAvailableSemaphores, m_RenderFinishedSemaphores,
                   m_CurrentSemaphoreIndex, m_CurrentFrame, m_CurrentImageIndex,
                   m_FramebufferResized, extent, caller, beginResult, acquireResult,
                   presentResult, envVars, obsVars, bundleVars, pureVars, appVars, widgetVars, recording, rcSameSurface>>

\* The first iteration of MainLoop over the renderer whose Init failed:
\* PollEvents, the minimized check (a minimized window keeps the loop in
\* WaitEvents), OnUpdate and the call of BeginFrame.
MainLoop_Uninitialized ==
    /\ pc = "uninit_loop"
    /\ ~IsMinimized(fbZero)
    /\ m_FramebufferResized' = OnResize(m_FramebufferResized, eventPending)
    /\ eventPending' = FALSE
    /\ hooks' = <<"OnUpdate">>
    /\ pc' = "bf_uninit"
    /\ UNCHANGED <<bundleVars, runVars, pureVars, appVars, widgetVars, recording, m_Config, mode, m_SwapchainImages,
                   m_SwapchainImageViews, m_Framebuffers,
                   m_Frames, m_ImageAvailableSemaphores, m_RenderFinishedSemaphores,
                   m_CurrentSemaphoreIndex, m_CurrentFrame, m_CurrentImageIndex,
                   extent, caller, beginResult, acquireResult, presentResult,
                   fenceSignaled, gpuQueue, semaphorePending, imageState,
                   surfaceCaps, fbZero,
                   recreatedBy, efEntryFrame, efOutcome, efFlagAtCheck, rcResizeDelivered,
                   beginCmdOk, frameNo, allOk, slotFrame, waitedFrame>>

\* BeginFrame on that renderer: m_Frames is empty, so m_Frames[m_CurrentFrame]
\* is an out-of-bounds access.  Its behaviour is undefined; the run is not
\* followed past it.
BeginFrame_Uninitialized ==
    /\ pc = "bf_uninit"
    /\ pc' = "undefined"
    /\ UNCHANGED <<m_Config, mode, m_SwapchainImages, m_SwapchainImageViews, m_Framebuffers,
                   m_Frames, m_ImageAvailableSemaphores, m_RenderFinishedSemaphores,
                   m_CurrentSemaphoreIndex, m_CurrentFrame, m_CurrentImageIndex,
                   m_FramebufferResized, extent, caller, beginResult, acquireResult,
                   presentResult, envVars, obsVars, bundleVars, runVars, pureVars, appVars, widgetVars, recording>>

\* ---------------------------------------------------------------- App::MainLoop
\* Top of one iteration: PollEvents, the minimized check, OnUpdate, and the
\* call of BeginFrame up to its fence wait.
MainLoop_Poll ==
    /\ pc = "loop"
    /\ m_FramebufferResized' = OnResize(m_FramebufferResized, eventPending)
    /\ eventPending' = FALSE
    /\ IF IsMinimized(fbZero)
       THEN /\ pc' = "loop_wait"
            /\ hooks' = <<>>
       ELSE /\ pc' = "bf_wait"
            /\ hooks' = <<"OnUpdate">>
    /\ beginResult' = "none"
    /\ acquireResult' = "none"
    /\ presentResult' = "none"
    /\ recreatedBy' = "none"
    /\ efEntryFrame' = -1
    /\ efOutcome' = "none"
    /\ efFlagAtCheck' = FALSE
    /\ rcResizeDelivered' = FALSE
    /\ rcSameSurface' = FALSE
    /\ beginCmdOk' = TRUE
    /\ waitedFrame' = -1
    /\ UNCHANGED <<bundleVars, initOk, started, pureVars, appVars, widgetVars, recording, m_Config, mode, m_SwapchainImages, m_SwapchainImageViews, m_Framebuffers,
                   m_Frames, m_ImageAvailableSemaphores, m_RenderFinishedSemaphores,
                   m_CurrentSemaphoreIndex, m_CurrentFrame, m_CurrentImageIndex,
                   extent, caller,
                   fenceSignaled, gpuQueue, semaphorePending, imageState,
                   surfaceCaps, fbZero, frameNo, allOk, slotFrame>>

\* The minimized branch: WaitEvents returns after dispatching events; `continue`.
MainLoop_WaitEvents ==
    /\ pc = "loop_wait"
    /\ m_FramebufferResized' = OnResize(m_FramebufferResized, eventPending)
    /\ eventPending' = FALSE
    /\ pc' = "loop"
    /\ UNCHANGED <<bundleVars, runVars, pureVars, appVars, widgetVars, recording, m_Config, mode, m_SwapchainImages, m_SwapchainImageViews, m_Framebuffers,
                   m_Frames, m_ImageAvailableSemaphores, m_RenderFinishedSemaphores,
                   m_CurrentSemaphoreIndex, m_CurrentFrame, m_CurrentImageIndex,
                   extent, caller, beginResult, acquireResult, presentResult,
                   fenceSignaled, gpuQueue, semaphorePending, imageState,
                   surfaceCaps, fbZero, obsVars>>

\* ---------------------------------------------------------------- Renderer::RecreateSwapchain
\* Entry of RecreateSwapchain: the first read of the framebuffer extent and the
\* loop test.  Used by the two callers.
EnterRecreate(who) ==
    /\ caller' = who
    /\ extent' = fbZero
    /\ pc' = IF fbZero THEN "rc_read" ELSE "rc_idle"

\* Body of the wait loop, first statement: extent = GetFramebufferExtent().
RecreateSwapchain_ReadExtent ==
    /\ pc = "rc_read"
    /\ extent' = fbZero
    /\ pc' = "rc_waitevents"
    /\ UNCHANGED <<bundleVars, runVars, pureVars, appVars, widgetVars, recording, m_Config, mode, m_SwapchainImages, m_SwapchainImageViews, m_Framebuffers,
                   m_Frames, m_ImageAvailableSemaphores, m_RenderFinishedSemaphores,
                   m_CurrentSemaphoreIndex, m_CurrentFrame, m_CurrentImageIndex,
                   m_FramebufferResized, caller, beginResult, acquireResult, presentResult,
                   envVars, obsVars>>

\* Body of the wait loop, second statement: WaitEvents returns (dispatching the
\* callbacks of the events that arrived), then the loop test on `extent`.
RecreateSwapchain_WaitEvents ==
    /\ pc = "rc_waitevents"
    /\ m_FramebufferResized' = OnResize(m_FramebufferResized, eventPending)
    /\ eventPending' = FALSE
    /\ rcResizeDelivered' = (rcResizeDelivered \/ eventPending)
    /\ pc' = IF extent THEN "rc_read" ELSE "rc_idle"
    /\ UNCHANGED <<bundleVars, runVars, pureVars, appVars, widgetVars, recording, m_Config, mode, m_SwapchainImages, m_SwapchainImageViews, m_Framebuffers,
                   m_Frames, m_ImageAvailableSemaphores, m_RenderFinishedSemaphores,
                   m_CurrentSemaphoreIndex, m_CurrentFrame, m_CurrentImageIndex,
                   extent, caller, beginResult, acquireResult, presentResult,
                   fenceSignaled, gpuQueue, semaphorePending, imageState,
                   surfaceCaps, fbZero,
                   hooks, recreatedBy, efEntryFrame, efOutcome, efFlagAtCheck, beginCmdOk,
                   frameNo, allOk, slotFrame, waitedFrame>>

RecreateSwapchain_FrameSlots_Reset ==
    /\ m_Frames' = [s \in DOMAIN m_Frames |->
                      [commandBuffer |-> m_Frames[s].commandBuffer,
                       inFlightFence |-> m_Frames[s].inFlightFence + Size(m_Frames),
                       imageAvailableSemaphore |-> 0,
                       renderFinishedSemaphore |-> 0]]
    /\ m_CurrentFrame' = 0
\* What RecreateSwapchain does to the frame slots: nothing but destroying the
\* pool semaphores whose handles the slots still store.
RecreateSwapchain_FrameSlots ==
    /\ m_Frames' = [s \in DOMAIN m_Frames |->
                      [m_Frames[s] EXCEPT
                         !.imageAvailableSemaphore = Dangling(@),
                         !.renderFinishedSemaphore = Dangling(@)]]
    /\ m_CurrentFrame' = m_CurrentFrame

\* WaitIdle returns, then CleanupSwapchain, destruction of both pools, the five
\* Create* calls and the creation of both pools.
RecreateSwapchain_Rebuild ==
    /\ pc = "rc_idle"
    /\ gpuQueue = <<>>
    /\ \E caps \in CapsSet, formats \in FormatLists :
       LET images == Created(ImageCount(caps))
           count == RecreateSemaphoreCount(images, m_ImageAvailableSemaphores)
       IN /\ surfaceCaps' = caps
          /\ surfaceFormats' = formats
          /\ rcSameSurface' = (caps = surfaceCaps /\ formats = surfaceFormats)
          /\ m_SwapchainImageFormat' = ChooseSwapSurfaceFormat(formats).format
          /\ vk' = CreatePools(CreateBundle(DestroyPools(CleanupSwapchain(vk)), images), count)
          /\ m_SwapchainImages' = images
          /\ m_SwapchainImageViews' = Created(Size(images))
          /\ m_Framebuffers' = Created(Size(images))
          /\ m_ImageAvailableSemaphores' = Created(count)
          /\ m_RenderFinishedSemaphores' = Created(count)
          /\ imageState' = [i \in DOMAIN images |-> "free"]
          /\ semaphorePending' = [i \in 0..(count - 1) |-> FALSE]
    /\ m_CurrentSemaphoreIndex' = 0
    /\ RecreateSwapchain_FrameSlots
    /\ recreatedBy' = caller
    /\ pc' = "rc_ret"
    /\ UNCHANGED <<m_Swapchain, m_RenderPass, m_DepthImage, m_DepthImageMemory,
                   m_DepthImageView, device, initOk, started, pureVars, appVars, widgetVars, recording, m_Config, mode, m_CurrentImageIndex, m_FramebufferResized,
                   extent, caller, beginResult, acquireResult, presentResult,
                   fenceSignaled, gpuQueue, fbZero, eventPending,
                   hooks, efEntryFrame, efOutcome, efFlagAtCheck, rcResizeDelivered, beginCmdOk,
                   frameNo, allOk, slotFrame, waitedFrame>>

\* ---------------------------------------------------------------- Renderer::BeginFrame
\* vkWaitForFences on the current slot's fence returns; the semaphore at
\* m_CurrentSemaphoreIndex is taken and vkAcquireNextImageKHR is called with it.
BeginFrame_WaitFence ==
    /\ pc = "bf_wait"
    /\ FenceWaitDone(m_CurrentFrame)
    /\ waitedFrame' = slotFrame[m_CurrentFrame]
    /\ pc' = "bf_acquire"
    /\ UNCHANGED <<bundleVars, runVars, pureVars, appVars, widgetVars, recording, m_Config, mode, m_SwapchainImages, m_SwapchainImageViews, m_Framebuffers,
                   m_Frames, m_ImageAvailableSemaphores, m_RenderFinishedSemaphores,
                   m_CurrentSemaphoreIndex, m_CurrentFrame, m_CurrentImageIndex,
                   m_FramebufferResized, extent, caller, beginResult, acquireResult,
                   presentResult, envVars,
                   hooks, recreatedBy, efEntryFrame, efOutcome, efFlagAtCheck, rcResizeDelivered, beginCmdOk,
                   frameNo, allOk, slotFrame>>

\* vkAcquireNextImageKHR returns OUT_OF_DATE: RecreateSwapchain is entered.
BeginFrame_AcquireRecreate ==
    /\ pc = "bf_acquire"
    /\ \E result \in AcquireResults :
          /\ AcquirePolicy(result) = "recreate"
          /\ acquireResult' = result
    /\ EnterRecreate("BeginFrame")
    /\ UNCHANGED <<bundleVars, runVars, pureVars, appVars, widgetVars, recording, m_Config, mode, m_SwapchainImages, m_SwapchainImageViews, m_Framebuffers,
                   m_Frames, m_ImageAvailableSemaphores, m_RenderFinishedSemaphores,
                   m_CurrentSemaphoreIndex, m_CurrentFrame, m_CurrentImageIndex,
                   m_FramebufferResized, beginResult, presentResult, envVars, obsVars>>

\* ... and when RecreateSwapchain has returned, BeginFrame returns false.
BeginFrame_AfterRecreate ==
    /\ pc = "rc_ret"
    /\ caller = "BeginFrame"
    /\ beginResult' = "false"
    /\ StopNumbering
    /\ caller' = "none"
    /\ pc' = "bf_ret"
    /\ UNCHANGED <<bundleVars, runVars, pureVars, appVars, widgetVars, recording, m_Config, mode, m_SwapchainImages, m_SwapchainImageViews, m_Framebuffers,
                   m_Frames, m_ImageAvailableSemaphores, m_RenderFinishedSemaphores,
                   m_CurrentSemaphoreIndex, m_CurrentFrame, m_CurrentImageIndex,
                   m_FramebufferResized, extent, acquireResult, presentResult, envVars,
                   hooks, recreatedBy, efEntryFrame, efOutcome, efFlagAtCheck, rcResizeDelivered, beginCmdOk,
                   waitedFrame>>

\* vkAcquireNextImageKHR returns another error: BeginFrame returns false.
BeginFrame_AcquireFail ==
    /\ pc = "bf_acquire"
    /\ \E result \in AcquireResults :
          /\ AcquirePolicy(result) = "fail"
          /\ acquireResult' = result
    /\ beginResult' = "false"
    /\ StopNumbering
    /\ pc' = "bf_ret"
    /\ UNCHANGED <<bundleVars, runVars, pureVars, appVars, widgetVars, recording, m_Config, mode, m_SwapchainImages, m_SwapchainImageViews, m_Framebuffers,
                   m_Frames, m_ImageAvailableSemaphores, m_RenderFinishedSemaphores,
                   m_CurrentSemaphoreIndex, m_CurrentFrame, m_CurrentImageIndex,
                   m_FramebufferResized, extent, caller, presentResult, envVars,
                   hooks, recreatedBy, efEntryFrame, efOutcome, efFlagAtCheck, rcResizeDelivered, beginCmdOk,
                   waitedFrame>>

\* vkAcquireNextImageKHR returns an image (SUCCESS or SUBOPTIMAL): the slot
\* records the semaphore pair, the pool index rotates, the fence is reset and
\* the command buffer is reset and begun (which can fail).  The presentation
\* engine may hand out any image the application does not hold: the returned
\* index says nothing about earlier work on that image, only the semaphore does.
BeginFrame_Acquired ==
    /\ pc = "bf_acquire"
    /\ \E result \in AcquireResults, image \in DOMAIN imageState, began \in BOOLEAN :
          /\ AcquirePolicy(result) = "proceed"
          /\ imageState[image] # "acquired"
          /\ acquireResult' = result
          /\ m_CurrentImageIndex' = image
          /\ imageState' = [imageState EXCEPT ![image] = "acquired"]
          /\ semaphorePending' =
                IF m_CurrentSemaphoreIndex \in DOMAIN semaphorePending
                THEN [semaphorePending EXCEPT ![m_CurrentSemaphoreIndex] = TRUE]
                ELSE semaphorePending
          /\ m_Frames' = [m_Frames EXCEPT ![m_CurrentFrame] =
                [@ EXCEPT !.imageAvailableSemaphore =
                               m_ImageAvailableSemaphores[m_CurrentSemaphoreIndex],
                          !.renderFinishedSemaphore =
                               m_RenderFinishedSemaphores[m_CurrentSemaphoreIndex]]]
          /\ m_CurrentSemaphoreIndex' =
                NextSemaphoreIndex(m_CurrentSemaphoreIndex, Size(m_ImageAvailableSemaphores))
          /\ fenceSignaled' = [fenceSignaled EXCEPT ![m_CurrentFrame] = FALSE]
          /\ beginResult' = IF began THEN "true" ELSE "false"
          /\ beginCmdOk' = began
          /\ recording' = IF began THEN BeginRecording(recording, m_CurrentFrame)
                                    ELSE recording \ {m_CurrentFrame}
          /\ IF began THEN UNCHANGED <<bundleVars, runVars, pureVars, appVars, widgetVars, allOk, frameNo, slotFrame>> ELSE StopNumbering
    /\ pc' = "bf_ret"
    /\ UNCHANGED <<bundleVars, runVars, pureVars, appVars, widgetVars, m_Config, mode, m_SwapchainImages, m_SwapchainImageViews, m_Framebuffers,
                   m_ImageAvailableSemaphores, m_RenderFinishedSemaphores, m_CurrentFrame,
                   m_FramebufferResized, extent, caller, presentResult,
                   gpuQueue, surfaceCaps, fbZero, eventPending,
                   hooks, recreatedBy, efEntryFrame, efOutcome, efFlagAtCheck, rcResizeDelivered,
                   waitedFrame>>

\* ---------------------------------------------------------------- App::MainLoop, after BeginFrame
\* BeginFrame returned true: the hooks of the mode run, then EndFrame is called.
MainLoop_Render ==
    /\ pc = "bf_ret"
    /\ RenderGate(beginResult = "true")
    /\ hooks' = hooks \o RenderHooks(mode)
    /\ pc' = "ef"
    /\ UNCHANGED <<bundleVars, runVars, pureVars, appVars, widgetVars, recording, m_Config, mode, m_SwapchainImages, m_SwapchainImageViews, m_Framebuffers,
                   m_Frames, m_ImageAvailableSemaphores, m_RenderFinishedSemaphores,
                   m_CurrentSemaphoreIndex, m_CurrentFrame, m_CurrentImageIndex,
                   m_FramebufferResized, extent, caller, beginResult, acquireResult,
                   presentResult, envVars,
                   recreatedBy, efEntryFrame, efOutcome, efFlagAtCheck, rcResizeDelivered, beginCmdOk,
                   frameNo, allOk, slotFrame, waitedFrame>>

\* BeginFrame returned false: the iteration ends without rendering.
MainLoop_Skip ==
    /\ pc = "bf_ret"
    /\ ~RenderGate(beginResult = "true")
    /\ pc' = "loop"
    /\ UNCHANGED <<bundleVars, runVars, pureVars, appVars, widgetVars, recording, m_Config, mode, m_SwapchainImages, m_SwapchainImageViews, m_Framebuffers,
                   m_Frames, m_ImageAvailableSemaphores, m_RenderFinishedSemaphores,
                   m_CurrentSemaphoreIndex, m_CurrentFrame, m_CurrentImageIndex,
                   m_FramebufferResized, extent, caller, beginResult, acquireResult,
                   presentResult, envVars, obsVars>>

\* ---------------------------------------------------------------- Renderer::EndFrame
\* vkEndCommandBuffer fails: EndFrame logs and returns.
EndFrame_EndFailed ==
    /\ pc = "ef"
    /\ efEntryFrame' = m_CurrentFrame
    /\ recording' = EndRecording(recording, m_CurrentFrame)
    /\ efOutcome' = "end_failed"
    /\ StopNumbering
    /\ pc' = "loop"
    /\ UNCHANGED <<bundleVars, runVars, pureVars, appVars, widgetVars, m_Config, mode, m_SwapchainImages, m_SwapchainImageViews, m_Framebuffers,
                   m_Frames, m_ImageAvailableSemaphores, m_RenderFinishedSemaphores,
                   m_CurrentSemaphoreIndex, m_CurrentFrame, m_CurrentImageIndex,
                   m_FramebufferResized, extent, caller, beginResult, acquireResult,
                   presentResult,
                   fenceSignaled, gpuQueue, semaphorePending, imageState,
                   surfaceCaps, fbZero, eventPending,
                   hooks, recreatedBy, efFlagAtCheck, rcResizeDelivered, beginCmdOk, waitedFrame>>

\* vkQueueSubmit fails: EndFrame logs and returns.
EndFrame_SubmitFailed ==
    /\ pc = "ef"
    /\ efEntryFrame' = m_CurrentFrame
    /\ recording' = EndRecording(recording, m_CurrentFrame)
    /\ efOutcome' = "submit_failed"
    /\ StopNumbering
    /\ pc' = "loop"
    /\ UNCHANGED <<bundleVars, runVars, pureVars, appVars, widgetVars, m_Config, mode, m_SwapchainImages, m_SwapchainImageViews, m_Framebuffers,
                   m_Frames, m_ImageAvailableSemaphores, m_RenderFinishedSemaphores,
                   m_CurrentSemaphoreIndex, m_CurrentFrame, m_CurrentImageIndex,
                   m_FramebufferResized, extent, caller, beginResult, acquireResult,
                   presentResult,
                   fenceSignaled, gpuQueue, semaphorePending, imageState,
                   surfaceCaps, fbZero, eventPending,
                   hooks, recreatedBy, efFlagAtCheck, rcResizeDelivered, beginCmdOk, waitedFrame>>

\* The batch the submit puts on the graphics queue.
Batch ==
    [slot |-> m_CurrentFrame,
     wait |-> m_Frames[m_CurrentFrame].imageAvailableSemaphore]

\* What vkQueueSubmit and vkQueuePresentKHR do to the environment.
SubmitAndPresent ==
    /\ gpuQueue' = Append(gpuQueue, Batch)
    /\ imageState' = IF m_CurrentImageIndex \in DOMAIN imageState
                     THEN [imageState EXCEPT ![m_CurrentImageIndex] = "free"]
                     ELSE imageState
    /\ IF allOk /\ frameNo + 1 < MaxFrames
       THEN /\ slotFrame' = [slotFrame EXCEPT ![m_CurrentFrame] = frameNo]
            /\ frameNo' = frameNo + 1
            /\ allOk' = allOk
       ELSE StopNumbering

\* Submit and present go through and the present check asks for no recreation:
\* m_CurrentFrame rotates and EndFrame returns.
EndFrame_Presented ==
    /\ pc = "ef"
    /\ \E result \in PresentResults :
          /\ ~PresentNeedsRecreate(result, m_FramebufferResized)
          /\ presentResult' = result
    /\ SubmitAndPresent
    /\ efEntryFrame' = m_CurrentFrame
    /\ recording' = EndRecording(recording, m_CurrentFrame)
    /\ efFlagAtCheck' = m_FramebufferResized
    /\ efOutcome' = "presented"
    /\ m_CurrentFrame' = NextFrame(m_CurrentFrame, m_Config.maxFramesInFlight)
    /\ pc' = "loop"
    /\ UNCHANGED <<bundleVars, runVars, pureVars, appVars, widgetVars, m_Config, mode, m_SwapchainImages, m_SwapchainImageViews, m_Framebuffers,
                   m_Frames, m_ImageAvailableSemaphores, m_RenderFinishedSemaphores,
                   m_CurrentSemaphoreIndex, m_CurrentImageIndex,
                   m_FramebufferResized, extent, caller, beginResult, acquireResult,
                   fenceSignaled, semaphorePending, surfaceCaps, fbZero, eventPending,
                   hooks, recreatedBy, rcResizeDelivered, beginCmdOk, waitedFrame>>

\* Submit and present go through and the present check asks for a recreation:
\* the flag is cleared and RecreateSwapchain is entered.
EndFrame_PresentRecreate ==
    /\ pc = "ef"
    /\ \E result \in PresentResults :
          /\ PresentNeedsRecreate(result, m_FramebufferResized)
          /\ presentResult' = result
    /\ SubmitAndPresent
    /\ efEntryFrame' = m_CurrentFrame
    /\ recording' = EndRecording(recording, m_CurrentFrame)
    /\ efFlagAtCheck' = m_FramebufferResized
    /\ efOutcome' = "recreating"
    /\ m_FramebufferResized' = FALSE
    /\ EnterRecreate("EndFrame")
    /\ UNCHANGED <<bundleVars, runVars, pureVars, appVars, widgetVars, m_Config, mode, m_SwapchainImages, m_SwapchainImageViews, m_Framebuffers,
                   m_Frames, m_ImageAvailableSemaphores, m_RenderFinishedSemaphores,
                   m_CurrentSemaphoreIndex, m_CurrentFrame, m_CurrentImageIndex,
                   beginResult, acquireResult,
                   fenceSignaled, semaphorePending, surfaceCaps, fbZero, eventPending,
                   hooks, recreatedBy, rcResizeDelivered, beginCmdOk, waitedFrame>>

\* ... and when RecreateSwapchain has returned, m_CurrentFrame rotates and
\* EndFrame returns.
EndFrame_AfterRecreate ==
    /\ pc = "rc_ret"
    /\ caller = "EndFrame"
    /\ efOutcome' = "presented"
    /\ m_CurrentFrame' = NextFrame(m_CurrentFrame, m_Config.maxFramesInFlight)
    /\ caller' = "none"
    /\ pc' = "loop"
    /\ UNCHANGED <<bundleVars, runVars, pureVars, appVars, widgetVars, recording, m_Config, mode, m_SwapchainImages, m_SwapchainImageViews, m_Framebuffers,
                   m_Frames, m_ImageAvailableSemaphores, m_RenderFinishedSemaphores,
                   m_CurrentSemaphoreIndex, m_CurrentImageIndex,
                   m_FramebufferResized, extent, beginResult, acquireResult,
                   presentResult, envVars,
                   hooks, recreatedBy, efEntryFrame, efFlagAtCheck, rcResizeDelivered, beginCmdOk,
                   frameNo, allOk, slotFrame, waitedFrame>>

\* ---------------------------------------------------------------- leaving the loop
\* The loop test fails (the window should close, or Quit was called): MainLoop
\* returns and App::Run goes on to OnStop and Shutdown.
MainLoop_Exit ==
    /\ pc = "loop"
    /\ pc' = "shutdown"
    /\ UNCHANGED <<m_Config, mode, m_SwapchainImages, m_SwapchainImageViews, m_Framebuffers,
                   m_Frames, m_ImageAvailableSemaphores, m_RenderFinishedSemaphores,
                   m_CurrentSemaphoreIndex, m_CurrentFrame, m_CurrentImageIndex,
                   m_FramebufferResized, extent, caller, beginResult, acquireResult,
                   presentResult, envVars, obsVars, bundleVars, runVars, pureVars, appVars, widgetVars, recording>>

\* Renderer::Cleanup: WaitIdle when there is a device, CleanupSwapchain, both
\* pools, the fences and the frame slots, then the context.
Cleanup ==
    /\ device # 0 => gpuQueue = <<>>
    /\ vk' = DestroyPools(CleanupSwapchain(vk))
    /\ IF device # 0
       THEN /\ m_DepthImageView' = 0
            /\ m_DepthImage' = 0
            /\ m_DepthImageMemory' = 0
            /\ m_Framebuffers' = Empty
            /\ m_RenderPass' = 0
            /\ m_SwapchainImageViews' = Empty
            /\ m_Swapchain' = 0
       ELSE UNCHANGED <<m_DepthImageView, m_DepthImage, m_DepthImageMemory, m_Framebuffers,
                        m_RenderPass, m_SwapchainImageViews, m_Swapchain>>
    /\ m_ImageAvailableSemaphores' = Empty
    /\ m_RenderFinishedSemaphores' = Empty
    /\ m_Frames' = Empty
    /\ recording' = {}
    /\ device' = 0
    /\ fenceSignaled' = Empty
    /\ semaphorePending' = Empty
    /\ imageState' = Empty
    /\ UNCHANGED <<m_Config, mode, m_SwapchainImages, m_SwapchainImageFormat,
                   m_CurrentSemaphoreIndex, m_CurrentFrame, m_CurrentImageIndex,
                   m_FramebufferResized, extent, caller, beginResult, acquireResult,
                   presentResult, gpuQueue, surfaceCaps, surfaceFormats, fbZero, eventPending,
                   obsVars, runVars, pureVars, appVars, widgetVars>>

\* App::Shutdown: WaitIdle and _renderer->Cleanup().
App_Shutdown ==
    /\ pc = "shutdown"
    /\ Cleanup
    /\ pc' = "destruct"

\* App::Shutdown, _renderer.reset(): Renderer::~Renderer calls Cleanup again.
Renderer_Destructor ==
    /\ pc = "destruct"
    /\ Cleanup
    /\ pc' = "done"

\* ---------------------------------------------------------------- environment
\* The GPU completes the oldest batch of the graphics queue: its wait on the
\* acquire semaphore is over and its fence is signalled.
GpuComplete ==
    /\ gpuQueue # <<>>
    /\ LET batch == Head(gpuQueue)
       IN /\ fenceSignaled' = [fenceSignaled EXCEPT ![batch.slot] = TRUE]
          /\ semaphorePending' =
                IF batch.wait > 0 /\ (batch.wait - 1) \in DOMAIN semaphorePending
                THEN [semaphorePending EXCEPT ![batch.wait - 1] = FALSE]
                ELSE semaphorePending
    /\ gpuQueue' = Tail(gpuQueue)
    /\ UNCHANGED <<bundleVars, runVars, pureVars, appVars, widgetVars, recording, progVars, imageState, surfaceCaps, fbZero, eventPending, obsVars>>

\* The user resizes, minimizes or restores the window: the framebuffer size
\* changes and a framebuffer-size event is queued.
WindowResize ==
    /\ pc \notin {"run", "shutdown", "destruct", "done", "bf_uninit", "undefined",
                  "pure", "returned", "apps", "widget"}
    /\ \E zero \in BOOLEAN :
          /\ (zero # fbZero) \/ ~eventPending
          /\ fbZero' = zero
    /\ eventPending' = TRUE
    /\ UNCHANGED <<bundleVars, runVars, pureVars, appVars, widgetVars, recording, progVars, fenceSignaled, gpuQueue, semaphorePending,
                   imageState, surfaceCaps, obsVars>>

\* ---------------------------------------------------------------- specification
Next ==
    \/ AppRun
    \/ AppRun_InitFailed
    \/ MainLoop_Uninitialized
    \/ BeginFrame_Uninitialized
    \/ MainLoop_Exit
    \/ App_Shutdown
    \/ Renderer_Destructor
    \/ MainLoop_Poll
    \/ MainLoop_WaitEvents
    \/ BeginFrame_WaitFence
    \/ BeginFrame_AcquireRecreate
    \/ BeginFrame_AfterRecreate
    \/ BeginFrame_AcquireFail
    \/ BeginFrame_Acquired
    \/ MainLoop_Render
    \/ MainLoop_Skip
    \/ EndFrame_EndFailed
    \/ EndFrame_SubmitFailed
    \/ EndFrame_Presented
    \/ EndFrame_PresentRecreate
    \/ EndFrame_AfterRecreate
    \/ RecreateSwapchain_ReadExtent
    \/ RecreateSwapchain_WaitEvents
    \/ RecreateSwapchain_Rebuild
    \/ GpuComplete
    \/ WindowResize

Spec == Init /\ [][Next]_vars

TypeOK ==
    /\ pc \in {"run", "loop", "loop_wait", "bf_wait", "bf_acquire", "bf_ret", "ef",
               "rc_read", "rc_waitevents", "rc_idle", "rc_ret",
               "uninit_loop", "bf_uninit", "undefined", "shutdown", "destruct", "done",
               "pure", "returned", "apps", "widget"}
    /\ pc \in {"loop", "loop_wait", "bf_wait", "bf_acquire", "bf_ret", "ef",
               "rc_read", "rc_waitevents", "rc_idle", "rc_ret", "shutdown"}
          => /\ vk.live["imageView"] = Handles(m_SwapchainImageViews)
             /\ vk.live["framebuffer"] = Handles(m_Framebuffers)
             /\ vk.live["imageAvailable"] = Handles(m_ImageAvailableSemaphores)
             /\ vk.live["renderFinished"] = Handles(m_RenderFinishedSemaphores)
             /\ vk.live["swapchain"] = {m_Swapchain}
    /\ m_CurrentFrame \in 0..(m_Config.maxFramesInFlight - 1)
    /\ Len(gpuQueue) <= MaxFramesInFlightBound
    /\ allOk \/ frameNo = MaxFrames
    /\ recording \subseteq DOMAIN m_Frames
    /\ _initialized \in BOOLEAN /\ _enabled \in BOOLEAN /\ _needsResize \in BOOLEAN
    /\ _width \in Widths \cup {DefaultWidth}
    /\ _height \in Heights \cup {DefaultHeight}
    /\ _imguiTexture \in {0, 1}
    /\ _initialized <=> renderTarget.live
    /\ renderTarget.live <=> _imguiTexture # 0
    /\ wpc \in {"idle", "update"}
    /\ _instance \in 0..MaxApps
    /\ appAlive \subseteq 1..MaxApps
    /\ Len(runStack) <= MaxRunDepth
    /\ \A i \in 1..Len(runStack) : runStack[i] \in appAlive
    /\ lastRun \in [app : 0..MaxApps, entered : BOOLEAN]

\* ================================================================ selection functions
\* VkFormatProperties of a format: the features of linear and optimal tiling.
FormatFeatures == {"DEPTH_STENCIL_ATTACHMENT", "SAMPLED_IMAGE"}
DepthFormats == {"D32_SFLOAT", "D32_SFLOAT_S8_UINT", "D24_UNORM_S8_UINT"}
FormatProperties == [linearTilingFeatures : SUBSET FormatFeatures,
                     optimalTilingFeatures : SUBSET FormatFeatures]

FindSupportedFormat_Linear(candidates, tiling, features, props) ==
    LET ok == {i \in 1..Len(candidates) :
                  features \subseteq props[candidates[i]].linearTilingFeatures}
    IN IF ok # {} THEN candidates[CHOOSE i \in ok : \A j \in ok : i <= j]
       ELSE candidates[1]
\* Renderer::FindSupportedFormat: the first candidate whose features of the
\* asked tiling include `features`; candidates[0] when there is none.
FindSupportedFormat(candidates, tiling, features, props) ==
    LET ok == {i \in 1..Len(candidates) :
                  \/ /\ tiling = "LINEAR"
                     /\ features \subseteq props[candidates[i]].linearTilingFeatures
                  \/ /\ tiling = "OPTIMAL"
                     /\ features \subseteq props[candidates[i]].optimalTilingFeatures}
    IN IF ok # {} THEN candidates[CHOOSE i \in ok : \A j \in ok : i <= j]
       ELSE candidates[1]

\* Renderer::FindDepthFormat.
FindDepthFormat(props) ==
    FindSupportedFormat(<<"D32_SFLOAT", "D32_SFLOAT_S8_UINT", "D24_UNORM_S8_UINT">>,
                        "OPTIMAL", {"DEPTH_STENCIL_ATTACHMENT"}, props)

PresentModes == {"FIFO", "MAILBOX", "IMMEDIATE", "FIFO_RELAXED"}
\* Lists of distinct present modes, of up to MaxPresentModes entries.
PresentModeLists ==
    UNION {{l \in [1..n -> PresentModes] : \A i, j \in 1..n : i # j => l[i] # l[j]} :
              n \in 0..MaxPresentModes}
Contains(list, x) == \E i \in 1..Len(list) : list[i] = x

ChooseSwapPresentMode_ImmediateFirst(vsync, availablePresentModes) ==
    IF ~vsync /\ Contains(availablePresentModes, "IMMEDIATE") THEN "IMMEDIATE"
    ELSE IF ~vsync /\ Contains(availablePresentModes, "MAILBOX") THEN "MAILBOX"
    ELSE "FIFO"
\* Renderer::ChooseSwapPresentMode (vsync is m_Config.vsync).
ChooseSwapPresentMode(vsync, availablePresentModes) ==
    IF ~vsync /\ Contains(availablePresentModes, "MAILBOX") THEN "MAILBOX"
    ELSE IF ~vsync /\ Contains(availablePresentModes, "IMMEDIATE") THEN "IMMEDIATE"
    ELSE "FIFO"

\* What the driver reports about one physical device.
PhysicalDevices ==
    [queueFamiliesComplete : BOOLEAN, extensionsSupported : BOOLEAN,
     formatCount : {0, 1}, presentModeCount : {0, 1},
     deviceType : {"DISCRETE_GPU", "INTEGRATED_GPU"},
     maxImageDimension2D : {4096, 16384}]
DeviceLists == UNION {[1..n -> PhysicalDevices] : n \in 0..MaxDevices}

\* The score bonus PickPhysicalDevice gives a discrete GPU.
DiscreteBonus == 1000

\* VulkanContext::IsDeviceSuitable.
IsDeviceSuitable(d) ==
    /\ d.queueFamiliesComplete
    /\ d.extensionsSupported
    /\ ~(d.formatCount = 0 \/ d.presentModeCount = 0)

\* The score of a device in PickPhysicalDevice (the dimensions in use are far
\* below the range of int).
Score(d) ==
    (IF d.deviceType = "DISCRETE_GPU" THEN DiscreteBonus ELSE 0) + d.maxImageDimension2D

RECURSIVE PickLoop(_, _, _, _)
\* The loop of PickPhysicalDevice from device i on: bestDevice is the index of
\* the best device so far (0: VK_NULL_HANDLE).
PickLoop(devices, i, bestDevice, bestScore) ==
    IF i > Len(devices) THEN bestDevice
    ELSE IF ~IsDeviceSuitable(devices[i]) THEN PickLoop(devices, i + 1, bestDevice, bestScore)
    ELSE IF Score(devices[i]) > bestScore
         THEN PickLoop(devices, i + 1, i, Score(devices[i]))
         ELSE PickLoop(devices, i + 1, bestDevice, bestScore)

\* VulkanContext::PickPhysicalDevice: the value returned and m_PhysicalDevice.
PickPhysicalDevice(devices) ==
    IF Len(devices) = 0 THEN [ok |-> FALSE, device |-> 0]
    ELSE LET bestDevice == PickLoop(devices, 1, 0, -1)
         IN IF bestDevice = 0 THEN [ok |-> FALSE, device |-> 0]
            ELSE [ok |-> TRUE, device |-> bestDevice]

\* VkMemoryPropertyFlags, as the set of the bits that are set.
MemoryPropertyFlags == {"DEVICE_LOCAL", "HOST_VISIBLE"}
\* m_MemoryProperties.memoryTypes[0..memoryTypeCount-1].propertyFlags.
MemoryTypeLists == UNION {[0..(n - 1) -> SUBSET MemoryPropertyFlags] : n \in 0..MaxMemoryTypes}
\* typeFilter & (1 << i), as a truth value.
TypeBit(typeFilter, i) == (typeFilter \div (2 ^ i)) % 2 = 1

FindMemoryType_AnyFlag(memoryTypes, typeFilter, properties) ==
    LET ok == {i \in DOMAIN memoryTypes :
                  /\ TypeBit(typeFilter, i)
                  /\ (memoryTypes[i] \cap properties) # {}}
    IN IF ok # {} THEN CHOOSE i \in ok : \A j \in ok : i <= j
       ELSE 0
\* VulkanContext::FindMemoryType: the first index, in ascending order, that
\* passes the test of the loop body; 0 after the loop.
FindMemoryType(memoryTypes, typeFilter, properties) ==
    LET ok == {i \in DOMAIN memoryTypes :
                  /\ TypeBit(typeFilter, i)
                  /\ (memoryTypes[i] \cap properties) = properties}
    IN IF ok # {} THEN CHOOSE i \in ok : \A j \in ok : i <= j
       ELSE 0

\* The calls made in the runs of the selection functions.
PureCalls ==
    {[fn |-> "FindMemoryType", memoryTypes |-> mt, typeFilter |-> tf, properties |-> pf] :
        mt \in MemoryTypeLists, tf \in 0..(2 ^ MaxMemoryTypes - 1),
        pf \in SUBSET MemoryPropertyFlags} \cup
    {[fn |-> "FindDepthFormat", props |-> pr] : pr \in [DepthFormats -> FormatProperties]}
    \cup {[fn |-> "ChooseSwapPresentMode", vsync |-> v, availablePresentModes |-> l] :
              v \in BOOLEAN, l \in PresentModeLists}
    \cup {[fn |-> "PickPhysicalDevice", devices |-> ds] : ds \in DeviceLists}

InitPure ==
    /\ pc = "pure"
    /\ m_Config = [maxFramesInFlight |-> 2]
    /\ mode = "Hybrid"
    /\ call \in PureCalls
    /\ returned = "pending"
    /\ InitMembers

Call_FindDepthFormat ==
    /\ pc = "pure"
    /\ call.fn = "FindDepthFormat"
    /\ pc' = "returned"
    /\ returned' = FindDepthFormat(call.props)
    /\ UNCHANGED <<m_Config, mode, m_SwapchainImages, m_SwapchainImageViews, m_Framebuffers,
                   m_Frames, m_ImageAvailableSemaphores, m_RenderFinishedSemaphores,
                   m_CurrentSemaphoreIndex, m_CurrentFrame, m_CurrentImageIndex,
                   m_FramebufferResized, extent, caller, beginResult, acquireResult,
                   presentResult, envVars, obsVars, bundleVars, runVars, call, appVars, widgetVars, recording>>

Call_ChooseSwapPresentMode ==
    /\ pc = "pure"
    /\ call.fn = "ChooseSwapPresentMode"
    /\ pc' = "returned"
    /\ returned' = ChooseSwapPresentMode(call.vsync, call.availablePresentModes)
    /\ UNCHANGED <<m_Config, mode, m_SwapchainImages, m_SwapchainImageViews, m_Framebuffers,
                   m_Frames, m_ImageAvailableSemaphores, m_RenderFinishedSemaphores,
                   m_CurrentSemaphoreIndex, m_CurrentFrame, m_CurrentImageIndex,
                   m_FramebufferResized, extent, caller, beginResult, acquireResult,
                   presentResult, envVars, obsVars, bundleVars, runVars, call, appVars, widgetVars, recording>>

Call_PickPhysicalDevice ==
    /\ pc = "pure"
    /\ call.fn = "PickPhysicalDevice"
    /\ pc' = "returned"
    /\ returned' = PickPhysicalDevice(call.devices)
    /\ UNCHANGED <<m_Config, mode, m_SwapchainImages, m_SwapchainImageViews, m_Framebuffers,
                   m_Frames, m_ImageAvailableSemaphores, m_RenderFinishedSemaphores,
                   m_CurrentSemaphoreIndex, m_CurrentFrame, m_CurrentImageIndex,
                   m_FramebufferResized, extent, caller, beginResult, acquireResult,
                   presentResult, envVars, obsVars, bundleVars, runVars, call, appVars, widgetVars, recording>>

Call_FindMemoryType ==
    /\ pc = "pure"
    /\ call.fn = "FindMemoryType"
    /\ pc' = "returned"
    /\ returned' = FindMemoryType(call.memoryTypes, call.typeFilter, call.properties)
    /\ UNCHANGED <<m_Config, mode, m_SwapchainImages, m_SwapchainImageViews, m_Framebuffers,
                   m_Frames, m_ImageAvailableSemaphores, m_RenderFinishedSemaphores,
                   m_CurrentSemaphoreIndex, m_CurrentFrame, m_CurrentImageIndex,
                   m_FramebufferResized, extent, caller, beginResult, acquireResult,
                   presentResult, envVars, obsVars, bundleVars, runVars, call, appVars, widgetVars, recording>>

NextPure ==
    \/ Call_FindMemoryType
    \/ Call_FindDepthFormat
    \/ Call_ChooseSwapPresentMode
    \/ Call_PickPhysicalDevice

SpecPure == InitPure /\ [][NextPure]_vars

\* ================================================================ the application singleton
Apps == 1..MaxApps
\* App::Get().
Get == _instance

InitApps ==
    /\ pc = "apps"
    /\ m_Config = [maxFramesInFlight |-> 2]
    /\ mode = "Hybrid"
    /\ call = NoCall
    /\ returned = "none"
    /\ InitMembers

\* App::App(): a new App object, made by main or by a hook of a running one.
App_Construct(a) ==
    /\ pc = "apps"
    /\ a \notin appAlive
    /\ appAlive' = appAlive \cup {a}
    /\ UNCHANGED <<_instance, runStack, lastRun>>
    /\ UNCHANGED <<progVars, envVars, obsVars, bundleVars, runVars, pureVars, recording, widgetVars>>

\* App::~App(): what it leaves in _instance.
DestructorInstance(a) == 0

\* App::~App() of an object whose Run is not in progress.
App_Destruct(a) ==
    /\ pc = "apps"
    /\ a \in appAlive
    /\ \A i \in 1..Len(runStack) : runStack[i] # a
    /\ appAlive' = appAlive \ {a}
    /\ _instance' = DestructorInstance(a)
    /\ UNCHANGED <<runStack, lastRun>>
    /\ UNCHANGED <<progVars, envVars, obsVars, bundleVars, runVars, pureVars, recording, widgetVars>>

\* The guard of App::Run: TRUE when Run goes on past it.
RunGuard(a) == ~(_instance # 0)

\* App::Run up to the main loop: returns at the guard, or sets _instance,
\* creates the window and the renderer (Initialize) and enters MainLoop.
App_Run(a) ==
    /\ pc = "apps"
    /\ a \in appAlive
    /\ Len(runStack) < MaxRunDepth
    /\ IF RunGuard(a)
       THEN /\ _instance' = a
            /\ runStack' = Append(runStack, a)
            /\ lastRun' = [app |-> a, entered |-> TRUE]
       ELSE /\ lastRun' = [app |-> a, entered |-> FALSE]
            /\ UNCHANGED <<_instance, runStack>>
    /\ UNCHANGED appAlive
    /\ UNCHANGED <<progVars, envVars, obsVars, bundleVars, runVars, pureVars, recording, widgetVars>>

\* App::Run from the end of MainLoop: OnStop, Shutdown, return.  _instance is
\* left as it is.
App_RunReturn ==
    /\ pc = "apps"
    /\ runStack # <<>>
    /\ runStack' = SubSeq(runStack, 1, Len(runStack) - 1)
    /\ UNCHANGED <<_instance, appAlive, lastRun>>
    /\ UNCHANGED <<progVars, envVars, obsVars, bundleVars, runVars, pureVars, recording, widgetVars>>

NextApps ==
    \/ \E a \in Apps : App_Construct(a)
    \/ \E a \in Apps : App_Destruct(a)
    \/ \E a \in Apps : App_Run(a)
    \/ App_RunReturn

SpecApps == InitApps /\ [][NextApps]_vars

\* ================================================================ the render-target widget
\* What a hook does: nothing, or a call of SetSize.
HookCalls == {[setSize |-> FALSE, width |-> 0, height |-> 0]}
             \cup {[setSize |-> TRUE, width |-> w, height |-> h] : w \in Widths, h \in Heights}
\* ImGui::GetContentRegionAvail(), truncated to whole pixels.
ContentRegions == [x : {0, 10, 64}, y : {0, 10}]
Max(a, b) == IF a >= b THEN a ELSE b

\* RenderWidget::SetSize without its hook: the size and the flag afterwards.
SetSizeOnce(size, width, height) ==
    IF size.width # width \/ size.height # height
    THEN [width |-> width, height |-> height, needsResize |-> TRUE]
    ELSE size
\* RenderWidget::SetSize on a widget of the given size and flag; onRenderResize
\* is what the OnRenderResize hook does when it is invoked (a SetSize the hook
\* makes invokes a hook that makes none).
SetSize(size, width, height, onRenderResize) ==
    IF size.width # width \/ size.height # height
    THEN IF onRenderResize.setSize
         THEN SetSizeOnce(SetSizeOnce(size, width, height),
                          onRenderResize.width, onRenderResize.height)
         ELSE SetSizeOnce(size, width, height)
    ELSE size
\* The widget's size and flag.
WidgetSize == [width |-> _width, height |-> _height, needsResize |-> _needsResize]

CreateSizeDependentResources_Stale(target, width, height) ==
    [live |-> TRUE, width |-> IF target.width # 0 THEN target.width ELSE width,
     height |-> IF target.height # 0 THEN target.height ELSE height, gen |-> 1 - target.gen]
\* RenderWidget::CreateSizeDependentResources: images, views and framebuffer
\* of _width x _height, every creation succeeding.
CreateSizeDependentResources(target, width, height) ==
    [live |-> TRUE, width |-> width, height |-> height, gen |-> 1 - target.gen]
\* RenderWidget::CleanupSizeDependentResources.
CleanupSizeDependentResources(target) == [target EXCEPT !.live = FALSE]

InitWidget ==
    /\ pc = "widget"
    /\ m_Config = [maxFramesInFlight |-> 2]
    /\ mode = "Hybrid"
    /\ call = NoCall
    /\ returned = "none"
    /\ InitMembers

\* RenderWidget::Initialize of a widget that is not initialized (the command
\* pool and buffer are created, then the render target).
Widget_Initialize ==
    /\ pc = "widget"
    /\ wpc = "idle"
    /\ ~_initialized
    /\ renderTarget' = CreateSizeDependentResources(renderTarget, _width, _height)
    /\ _imguiTexture' = 1
    /\ _initialized' = TRUE
    /\ widgetCall' = "Initialize"
    /\ UNCHANGED <<_enabled, _needsResize, _width, _height, wpc, imageSubmitted, onRenderFrame>>
    /\ UNCHANGED <<progVars, envVars, obsVars, bundleVars, runVars, pureVars, appVars, recording>>

\* RenderWidget::SetSize, called by the application.
Widget_SetSize ==
    /\ pc = "widget"
    /\ wpc = "idle"
    /\ \E width \in Widths, height \in Heights, onRenderResize \in HookCalls :
          LET size == SetSize(WidgetSize, width, height, onRenderResize)
          IN /\ _width' = size.width
             /\ _height' = size.height
             /\ _needsResize' = size.needsResize
    /\ widgetCall' = "SetSize"
    /\ UNCHANGED <<_initialized, _enabled, _imguiTexture, renderTarget, wpc, imageSubmitted,
                   onRenderFrame>>
    /\ UNCHANGED <<progVars, envVars, obsVars, bundleVars, runVars, pureVars, appVars, recording>>

\* RenderWidget::SetEnabled.
Widget_SetEnabled ==
    /\ pc = "widget"
    /\ wpc = "idle"
    /\ \E enabled \in BOOLEAN : _enabled' = enabled
    /\ widgetCall' = "SetEnabled"
    /\ UNCHANGED <<_initialized, _needsResize, _width, _height, _imguiTexture, renderTarget,
                   wpc, imageSubmitted, onRenderFrame>>
    /\ UNCHANGED <<progVars, envVars, obsVars, bundleVars, runVars, pureVars, appVars, recording>>

\* RenderWidget::RenderImage, called from OnUI.
Widget_RenderImage ==
    /\ pc = "widget"
    /\ wpc = "idle"
    /\ \E contentRegion \in ContentRegions, onRenderResize \in HookCalls :
          LET newWidth == Max(contentRegion.x, MinSize)
              newHeight == Max(contentRegion.y, MinSize)
              size == SetSize(WidgetSize, newWidth, newHeight, onRenderResize)
          IN IF _imguiTexture = 0 \/ ~(contentRegion.x > 0 /\ contentRegion.y > 0)
             THEN /\ imageSubmitted' = FALSE
                  /\ UNCHANGED <<_width, _height, _needsResize>>
             ELSE IF newWidth # _width \/ newHeight # _height
             THEN /\ _width' = size.width
                  /\ _height' = size.height
                  /\ _needsResize' = size.needsResize
                  /\ imageSubmitted' = FALSE
             ELSE /\ imageSubmitted' = TRUE
                  /\ UNCHANGED <<_width, _height, _needsResize>>
    /\ widgetCall' = "RenderImage"
    /\ UNCHANGED <<_initialized, _enabled, _imguiTexture, renderTarget, wpc, onRenderFrame>>
    /\ UNCHANGED <<progVars, envVars, obsVars, bundleVars, runVars, pureVars, appVars, recording>>

\* RenderWidget::Render up to the call of OnRenderUpdate: the early return,
\* or the recreation of the render target when a resize is pending.
Widget_Render ==
    /\ pc = "widget"
    /\ wpc = "idle"
    /\ IF ~_initialized \/ ~_enabled
       THEN UNCHANGED <<_needsResize, _imguiTexture, renderTarget, wpc>>
       ELSE /\ IF _needsResize
               THEN /\ renderTarget' = CreateSizeDependentResources(
                                           CleanupSizeDependentResources(renderTarget),
                                           _width, _height)
                    /\ _imguiTexture' = 1
               ELSE UNCHANGED <<_imguiTexture, renderTarget>>
            /\ _needsResize' = FALSE
            /\ wpc' = "update"
    /\ widgetCall' = "Render"
    /\ onRenderFrame' = NotInvoked
    /\ UNCHANGED <<_initialized, _enabled, _width, _height, imageSubmitted>>
    /\ UNCHANGED <<progVars, envVars, obsVars, bundleVars, runVars, pureVars, appVars, recording>>

\* RenderWidget::Render from OnRenderUpdate on: the hook runs, the command
\* buffer is reset and begun and, when that succeeds, OnRenderFrame is invoked
\* and the commands are submitted and waited for.
Widget_Render_Frame ==
    /\ pc = "widget"
    /\ wpc = "update"
    /\ \E onRenderUpdate \in HookCalls, onRenderResize \in HookCalls, began \in BOOLEAN :
          LET size == IF onRenderUpdate.setSize
                      THEN SetSize(WidgetSize, onRenderUpdate.width, onRenderUpdate.height,
                                   onRenderResize)
                      ELSE WidgetSize
          IN /\ _width' = size.width
             /\ _height' = size.height
             /\ _needsResize' = size.needsResize
             /\ onRenderFrame' =
                   IF began
                   THEN [invoked |-> TRUE, needsResize |-> size.needsResize,
                         width |-> size.width, height |-> size.height,
                         targetWidth |-> renderTarget.width,
                         targetHeight |-> renderTarget.height]
                   ELSE NotInvoked
    /\ wpc' = "idle"
    /\ UNCHANGED <<_initialized, _enabled, _imguiTexture, renderTarget, widgetCall,
                   imageSubmitted>>
    /\ UNCHANGED <<progVars, envVars, obsVars, bundleVars, runVars, pureVars, appVars, recording>>

\* RenderWidget::Cleanup of an initialized widget.
Widget_Cleanup ==
    /\ pc = "widget"
    /\ wpc = "idle"
    /\ _initialized
    /\ renderTarget' = CleanupSizeDependentResources(renderTarget)
    /\ _imguiTexture' = 0
    /\ _initialized' = FALSE
    /\ widgetCall' = "Cleanup"
    /\ UNCHANGED <<_enabled, _needsResize, _width, _height, wpc, imageSubmitted, onRenderFrame>>
    /\ UNCHANGED <<progVars, envVars, obsVars, bundleVars, runVars, pureVars, appVars, recording>>

NextWidget ==
    \/ Widget_Initialize
    \/ Widget_SetSize
    \/ Widget_SetEnabled
    \/ Widget_RenderImage
    \/ Widget_Render
    \/ Widget_Render_Frame
    \/ Widget_Cleanup

SpecWidget == InitWidget /\ [][NextWidget]_vars

\* ================================================================ the three application modes
\* App::Run with each AppMode; the renderer is configured as App::Initialize
\* configures it (maxFramesInFlight keeps its default).
InitModes ==
    /\ pc = "run"
    /\ m_Config = [maxFramesInFlight |-> 2]
    /\ mode \in AppModes
    /\ call = NoCall
    /\ returned = "none"
    /\ InitMembers

SpecModes == InitModes /\ [][Next]_vars

\* ================================================================ claims

\* C1: at most maxFramesInFlight submitted batches are unfinished, no slot has
\* two unfinished submissions, and while a slot's command buffer has been reset
\* for the current frame no earlier submission of that slot is still executing.
FenceBound ==
    /\ Len(gpuQueue) <= m_Config.maxFramesInFlight
    /\ \A i, j \in 1..Len(gpuQueue) : i # j => gpuQueue[i].slot # gpuQueue[j].slot
    /\ (pc \in {"bf_ret", "ef"} /\ acquireResult \in {"SUCCESS", "SUBOPTIMAL"})
          => \A i \in 1..Len(gpuQueue) : gpuQueue[i].slot # m_CurrentFrame
\* The CPU is held at the fence wait with every slot's batch still executing.
FenceBoundWitness ==
    /\ pc = "bf_wait"
    /\ m_Config.maxFramesInFlight >= 2
    /\ Len(gpuQueue) = m_Config.maxFramesInFlight
    /\ ~fenceSignaled[m_CurrentFrame]

\* C2: the semaphore BeginFrame hands to vkAcquireNextImageKHR is never one
\* that an earlier acquire signalled and whose consuming batch has not
\* completed, for every maxFramesInFlight and every swapchain image count.
AcquireSemaphoreFree ==
    [][(pc = "bf_wait" /\ pc' = "bf_acquire")
          => ~semaphorePending[m_CurrentSemaphoreIndex]]_vars
\* The same property where the frame slots do not outnumber the pool: the
\* fence wait then covers the previous user of the semaphore.
AcquireSemaphoreFreeSlotsFit ==
    [][(/\ pc = "bf_wait"
        /\ pc' = "bf_acquire"
        /\ m_Config.maxFramesInFlight <= Size(m_ImageAvailableSemaphores))
          => ~semaphorePending[m_CurrentSemaphoreIndex]]_vars
\* A pool semaphore is used a second time while a batch is still executing,
\* with no more frame slots than pool entries.
AcquireSemaphoreFreeSlotsFitWitness ==
    /\ pc = "bf_acquire"
    /\ frameNo >= Size(m_ImageAvailableSemaphores)
    /\ gpuQueue # <<>>
    /\ m_Config.maxFramesInFlight <= Size(m_ImageAvailableSemaphores)
    /\ ~semaphorePending[m_CurrentSemaphoreIndex]

\* C3: once the renderer is initialized, both semaphore pools hold exactly
\* (swapchain image count + 1) semaphores, also after a recreate that changed
\* the image count.
PoolSize ==
    initOk /\ pc \notin {"destruct", "done"} =>
        /\ Size(m_SwapchainImages) = ImageCount(surfaceCaps)
        /\ Size(m_ImageAvailableSemaphores) = Size(m_SwapchainImages) + 1
        /\ Size(m_RenderFinishedSemaphores) = Size(m_SwapchainImages) + 1
\* After a recreate that changed the image count: the image index of the last
\* frame of the old swapchain no longer exists.
PoolSizeWitness ==
    /\ pc = "rc_ret"
    /\ m_CurrentImageIndex \notin DOMAIN m_SwapchainImages
    /\ Size(m_ImageAvailableSemaphores) = Size(m_SwapchainImages) + 1

\* C4: a BeginFrame whose acquire returned OUT_OF_DATE returns false, and on
\* return the bundle was recreated: framebuffers and image views both number
\* the newly queried image count.
OutOfDateRecreates ==
    (pc = "bf_ret" /\ acquireResult = "OUT_OF_DATE") =>
        /\ beginResult = "false"
        /\ recreatedBy = "BeginFrame"
        /\ Size(m_SwapchainImages) = ImageCount(surfaceCaps)
        /\ Size(m_Framebuffers) = Size(m_SwapchainImages)
        /\ Size(m_SwapchainImageViews) = Size(m_SwapchainImages)
\* Such a return with a swapchain that shrank: the image index of the last
\* frame of the old swapchain has no framebuffer any more.
OutOfDateRecreatesWitness ==
    /\ pc = "bf_ret"
    /\ acquireResult = "OUT_OF_DATE"
    /\ beginResult = "false"
    /\ m_CurrentImageIndex \notin DOMAIN m_Framebuffers

RenderHookNames ==
    {"OnPreRender", "OnRender", "ImGuiBegin", "OnUI", "WidgetRender", "ImGuiEnd", "OnPostRender"}
RenderHookInvoked == \E i \in 1..Len(hooks) : hooks[i] \in RenderHookNames
EndFrameCalled ==
    \/ pc = "ef"
    \/ efOutcome # "none"
    \/ (pc \in {"rc_read", "rc_waitevents", "rc_idle", "rc_ret"} /\ caller = "EndFrame")

\* C5: in a loop iteration the render hooks and EndFrame run only if BeginFrame
\* returned true in that iteration; after a failed BeginFrame nothing is
\* recorded, submitted or presented.
RenderOnlyAfterBegin ==
    /\ (RenderHookInvoked \/ EndFrameCalled) => beginResult = "true"
    /\ beginResult = "false" =>
          /\ hooks = <<"OnUpdate">>
          /\ efOutcome = "none"
          /\ presentResult = "none"
\* An iteration that ended after a BeginFrame that failed past the acquire.
RenderOnlyAfterBeginWitness ==
    /\ pc = "loop"
    /\ beginResult = "false"
    /\ acquireResult = "SUCCESS"

PresentCheckTriggered == presentResult \in {"OUT_OF_DATE", "SUBOPTIMAL"} \/ efFlagAtCheck
EndFrameReturnedFromPresent == pc = "loop" /\ efOutcome = "presented"

EndFrameAlwaysAdvances ==
    (pc = "loop" /\ efEntryFrame # -1) =>
        m_CurrentFrame = (efEntryFrame + 1) % m_Config.maxFramesInFlight

\* C8: while every frame so far was begun and ended successfully, the
\* BeginFrame of frame k >= maxFramesInFlight waits on the fence of the
\* submission of frame k - maxFramesInFlight, not of frame k-1, and that
\* batch is complete when the wait returns.
WaitsForFrameKMinusM ==
    (pc = "bf_acquire" /\ allOk /\ frameNo >= m_Config.maxFramesInFlight) =>
        /\ waitedFrame = frameNo - m_Config.maxFramesInFlight
        /\ m_Config.maxFramesInFlight >= 2 => waitedFrame # frameNo - 1
        /\ \A i \in 1..Len(gpuQueue) : gpuQueue[i].slot # m_CurrentFrame
\* maxFramesInFlight = 2: frame 2 is past its wait on frame 0's fence while
\* frame 1 is still executing.
WaitsForFrameKMinusMWitness ==
    /\ pc = "bf_acquire"
    /\ allOk
    /\ m_Config.maxFramesInFlight = 2
    /\ frameNo = 2
    /\ waitedFrame = 0
    /\ Len(gpuQueue) = 1

\* C9: a SUBOPTIMAL acquire is treated by BeginFrame as SUCCESS is (the slot
\* takes the semaphores, the fence is reset, true is returned unless
\* vkBeginCommandBuffer fails, no recreation); a recreation in that iteration
\* comes from EndFrame's present check.
SuboptimalAcquireProceeds ==
    /\ (pc = "bf_ret" /\ acquireResult = "SUBOPTIMAL") =>
          /\ recreatedBy = "none"
          /\ beginResult = (IF beginCmdOk THEN "true" ELSE "false")
          /\ ~fenceSignaled[m_CurrentFrame]
          /\ imageState[m_CurrentImageIndex] = "acquired"
          /\ m_Frames[m_CurrentFrame].imageAvailableSemaphore > 0
    /\ (acquireResult = "SUBOPTIMAL" /\ recreatedBy # "none") =>
          recreatedBy = "EndFrame" /\ PresentCheckTriggered
\* A SUBOPTIMAL acquire followed by a recreation at EndFrame.
SuboptimalAcquireProceedsWitness ==
    /\ pc = "loop"
    /\ acquireResult = "SUBOPTIMAL"
    /\ recreatedBy = "EndFrame"

\* C10: the rebuild step of RecreateSwapchain leaves the number of frame slots,
\* every slot's fence and command buffer, the fences' states and m_CurrentFrame
\* as they were.
FrameSlotsSurviveRecreate ==
    [][(pc = "rc_idle" /\ pc' = "rc_ret") =>
          /\ DOMAIN m_Frames' = DOMAIN m_Frames
          /\ \A s \in DOMAIN m_Frames :
                /\ m_Frames'[s].inFlightFence = m_Frames[s].inFlightFence
                /\ m_Frames'[s].commandBuffer = m_Frames[s].commandBuffer
          /\ fenceSignaled' = fenceSignaled
          /\ m_CurrentFrame' = m_CurrentFrame]_vars
\* A recreation has just run while the second slot was current and the pools
\* were replaced.
FrameSlotsSurviveRecreateWitness ==
    /\ pc = "rc_ret"
    /\ m_CurrentFrame = 1
    /\ m_Frames[0].imageAvailableSemaphore < 0

\* The bundle, the pools and the frame counters, as the program holds them.
BundleState == <<m_Swapchain, m_SwapchainImages, m_SwapchainImageViews, m_Framebuffers,
                 m_RenderPass, m_DepthImage, m_DepthImageMemory, m_DepthImageView,
                 m_ImageAvailableSemaphores, m_RenderFinishedSemaphores, vk>>
FrameCounters == <<m_CurrentFrame, m_CurrentSemaphoreIndex, m_CurrentImageIndex, frameNo>>

\* C11: a step that dispatches the resize callback sets the resize flag and
\* leaves every object of the bundle, both pools and the frame counters as they
\* were; while the loop runs, objects are created and destroyed only by the
\* rebuild step of a RecreateSwapchain called from BeginFrame or EndFrame.
ResizeOnlyMarks ==
    [][/\ (eventPending /\ ~eventPending') =>
             /\ m_FramebufferResized'
             /\ BundleState' = BundleState
             /\ FrameCounters' = FrameCounters
       /\ (vk' # vk /\ pc \notin {"run", "shutdown", "destruct"}) =>
             /\ pc = "rc_idle"
             /\ caller \in {"BeginFrame", "EndFrame"}]_vars
\* After some frames a resize was dispatched by PollEvents: the flag is set,
\* nothing was recreated, and BeginFrame is about to run.
ResizeOnlyMarksWitness ==
    /\ pc = "bf_wait"
    /\ frameNo >= 1
    /\ m_FramebufferResized
    /\ recreatedBy = "none"
    /\ vk.live["swapchain"] = {1}

\* C12: an iteration that finds the framebuffer extent zero after PollEvents
\* goes to WaitEvents and from there back to the top of the loop, with no
\* OnUpdate, BeginFrame, render or UI hook, or EndFrame in between.
MinimizedSkipsFrame ==
    [][/\ (pc = "loop" /\ fbZero /\ pc' \notin {"loop", "shutdown"}) =>
             pc' = "loop_wait"
       /\ (pc = "loop_wait") =>
             /\ hooks = <<>> /\ hooks' = <<>>
             /\ beginResult = "none" /\ beginResult' = "none"
             /\ efOutcome = "none" /\ efOutcome' = "none"
             /\ waitedFrame = -1 /\ waitedFrame' = -1
             /\ pc' \in {"loop_wait", "loop"}]_vars
\* The window is found minimized after frames were rendered.
MinimizedSkipsFrameWitness ==
    /\ pc = "loop_wait"
    /\ frameNo >= 1
    /\ fbZero

\* C13: when RecreateSwapchain leaves its wait loop, the framebuffer extent
\* the window reports at that moment is nonzero.
RecreateLeavesLoopNonzero ==
    [][(pc \in {"rc_read", "rc_waitevents"} /\ pc' = "rc_idle") => ~fbZero']_vars

\* C14: no object is leaked or destroyed twice at any point of a run, and when
\* Cleanup has run every swapchain, image view, framebuffer, render pass,
\* depth resource and pool semaphore that was created has been destroyed.
CreatedDestroyedOnce ==
    /\ ~vk.leaked
    /\ ~vk.twice
    /\ pc = "done" => \A k \in Kinds : vk.live[k] = {}
\* The run ended after frames were rendered and the last iteration recreated
\* the swapchain over a minimize / restore round trip.
CreatedDestroyedOnceWitness ==
    /\ pc = "done"
    /\ initOk
    /\ recreatedBy = "EndFrame"
    /\ rcResizeDelivered
    /\ \A k \in Kinds : vk.live[k] = {}

\* C15: when App::Initialize fails, App::Run aborts: OnStart is not invoked,
\* the main loop is not entered and BeginFrame is not called.
InitFailureAborts ==
    (pc # "run" /\ ~initOk) =>
        /\ ~started
        /\ hooks = <<>>
        /\ pc \notin {"uninit_loop", "bf_uninit", "undefined"}

UIHookNames == {"ImGuiBegin", "OnUI", "WidgetRender", "ImGuiEnd"}
HookInvoked(h) == \E i \in 1..Len(hooks) : hooks[i] = h

\* C16: in GUI mode OnRender is never invoked, in Game mode no hook of the UI
\* phase is; in Hybrid mode a frame that reaches EndFrame has run OnRender and
\* the whole UI phase, OnRender first; the phases of every mode lie after
\* OnPreRender and before OnPostRender of a frame BeginFrame opened.
ModePhases ==
    /\ mode = "GUI" => ~HookInvoked("OnRender")
    /\ mode = "Game" => \A h \in UIHookNames : ~HookInvoked(h)
    /\ RenderHookInvoked => beginResult = "true"
    /\ pc = "ef" =>
          /\ mode \in {"Game", "Hybrid"} => HookInvoked("OnRender")
          /\ mode \in {"GUI", "Hybrid"} => \A h \in UIHookNames : HookInvoked(h)
          /\ \A i, j \in 1..Len(hooks) :
                /\ (hooks[i] = "OnRender" /\ hooks[j] \in UIHookNames) => i < j
                /\ (hooks[i] = "OnPreRender" /\ hooks[j] \in UIHookNames \cup {"OnRender"}) => i < j
                /\ (hooks[j] = "OnPostRender" /\ hooks[i] \in UIHookNames \cup {"OnRender"}) => i < j
\* A GUI-mode frame about to end: the UI phase ran without OnRender.
ModePhasesWitness ==
    /\ mode = "GUI"
    /\ pc = "ef"
    /\ HookInvoked("OnUI")
    /\ ~HookInvoked("OnRender")

\* C17: a recreation that finds the surface capabilities and formats the
\* bundle was built for produces a bundle of the same image count and format.
RecreateIdempotent ==
    [][(/\ pc = "rc_idle"
        /\ pc' = "rc_ret"
        /\ surfaceCaps' = surfaceCaps
        /\ surfaceFormats' = surfaceFormats)
          => /\ Size(m_SwapchainImages') = Size(m_SwapchainImages)
             /\ m_SwapchainImageFormat' = m_SwapchainImageFormat]_vars
\* A recreation under an unchanged surface has just run.
RecreateIdempotentWitness ==
    /\ pc = "rc_ret"
    /\ rcSameSurface
    /\ Size(m_SwapchainImages) = 2
    /\ m_SwapchainImageFormat = "B8G8R8A8_SRGB"

\* ---------------------------------------------------------------- C18
\* The depth formats whose optimal-tiling features include depth-stencil
\* attachment, in the call being made.
DepthSupported ==
    {f \in DepthFormats : "DEPTH_STENCIL_ATTACHMENT" \in call.props[f].optimalTilingFeatures}

\* C18: whenever at least one depth format is supported, FindDepthFormat returns
\* D32_SFLOAT if that is supported, otherwise D32_SFLOAT_S8_UINT if that is
\* supported, otherwise D24_UNORM_S8_UINT; so with D24_UNORM_S8_UINT the only
\* supported format it returns D24_UNORM_S8_UINT.
FirstSupportedDepthFormat ==
    (pc = "returned" /\ call.fn = "FindDepthFormat" /\ DepthSupported # {}) =>
        /\ returned \in DepthSupported
        /\ "D32_SFLOAT" \in DepthSupported => returned = "D32_SFLOAT"
        /\ ("D32_SFLOAT" \notin DepthSupported /\ "D32_SFLOAT_S8_UINT" \in DepthSupported)
               => returned = "D32_SFLOAT_S8_UINT"
        /\ DepthSupported = {"D24_UNORM_S8_UINT"} => returned = "D24_UNORM_S8_UINT"

\* Only D24_UNORM_S8_UINT is supported, the preferred formats offer their
\* features in linear tiling only, and D24_UNORM_S8_UINT was returned.
FirstSupportedDepthFormatWitness ==
    /\ pc = "returned"
    /\ call.fn = "FindDepthFormat"
    /\ DepthSupported = {"D24_UNORM_S8_UINT"}
    /\ "DEPTH_STENCIL_ATTACHMENT" \in call.props["D32_SFLOAT"].linearTilingFeatures
    /\ returned = "D24_UNORM_S8_UINT"

\* ---------------------------------------------------------------- C19
\* The present modes available in the call being made, as a set.
AvailableModes ==
    {call.availablePresentModes[i] : i \in 1..Len(call.availablePresentModes)}

\* C19: ChooseSwapPresentMode returns FIFO when vsync is enabled; when vsync is
\* disabled it returns MAILBOX if available, otherwise IMMEDIATE if available,
\* otherwise FIFO.
PresentModeChoice ==
    (pc = "returned" /\ call.fn = "ChooseSwapPresentMode") =>
        /\ call.vsync => returned = "FIFO"
        /\ (~call.vsync /\ "MAILBOX" \in AvailableModes) => returned = "MAILBOX"
        /\ (~call.vsync /\ "MAILBOX" \notin AvailableModes /\ "IMMEDIATE" \in AvailableModes)
               => returned = "IMMEDIATE"
        /\ (~call.vsync /\ "MAILBOX" \notin AvailableModes /\ "IMMEDIATE" \notin AvailableModes)
               => returned = "FIFO"

\* vsync is off, IMMEDIATE comes before MAILBOX in the list, and MAILBOX was
\* returned.
PresentModeChoiceWitness ==
    /\ pc = "returned"
    /\ call.fn = "ChooseSwapPresentMode"
    /\ ~call.vsync
    /\ Len(call.availablePresentModes) >= 2
    /\ call.availablePresentModes[1] = "IMMEDIATE"
    /\ "MAILBOX" \in AvailableModes
    /\ returned = "MAILBOX"

\* ---------------------------------------------------------------- C20
\* The indices of the suitable devices of the call being made, stated from the
\* four conditions of suitability.
SuitableDevices ==
    {i \in 1..Len(call.devices) :
        /\ call.devices[i].queueFamiliesComplete
        /\ call.devices[i].extensionsSupported
        /\ call.devices[i].formatCount > 0
        /\ call.devices[i].presentModeCount > 0}
SuitableDiscrete ==
    {i \in SuitableDevices : call.devices[i].deviceType = "DISCRETE_GPU"}

\* C20: PickPhysicalDevice fails iff no enumerated device is suitable; otherwise
\* it selects a suitable device, a discrete one whenever a suitable discrete GPU
\* exists, and of the largest max 2D image dimension among the suitable devices
\* of the kind selected.
PicksDiscreteWhenSuitable ==
    (pc = "returned" /\ call.fn = "PickPhysicalDevice") =>
        /\ ~returned.ok <=> SuitableDevices = {}
        /\ returned.ok =>
            /\ returned.device \in SuitableDevices
            /\ SuitableDiscrete # {} => returned.device \in SuitableDiscrete
            /\ \A i \in SuitableDevices :
                  call.devices[i].deviceType = call.devices[returned.device].deviceType
                      => call.devices[i].maxImageDimension2D
                             <= call.devices[returned.device].maxImageDimension2D

\* The part of C20 that the code keeps: failure iff no device is suitable, a
\* suitable device otherwise, and none of a higher score.
PicksHighestScore ==
    (pc = "returned" /\ call.fn = "PickPhysicalDevice") =>
        /\ ~returned.ok <=> SuitableDevices = {}
        /\ returned.ok =>
            /\ returned.device \in SuitableDevices
            /\ \A i \in SuitableDevices :
                  Score(call.devices[i]) <= Score(call.devices[returned.device])

\* A suitable discrete GPU was enumerated and an integrated GPU was selected.
PicksHighestScoreWitness ==
    /\ pc = "returned"
    /\ call.fn = "PickPhysicalDevice"
    /\ returned.ok
    /\ SuitableDiscrete # {}
    /\ returned.device \notin SuitableDiscrete

\* ---------------------------------------------------------------- C21
\* The memory-type indices that match the call being made: bit i of the filter
\* is set and the type has every requested property.
MatchingTypes ==
    {i \in DOMAIN call.memoryTypes :
        /\ (call.typeFilter \div (2 ^ i)) % 2 = 1
        /\ call.properties \subseteq call.memoryTypes[i]}

\* C21: FindMemoryType returns the smallest matching memory-type index, and 0
\* when no index matches.
FindMemoryTypeFirstMatch ==
    (pc = "returned" /\ call.fn = "FindMemoryType") =>
        /\ MatchingTypes # {} =>
              /\ returned \in MatchingTypes
              /\ \A j \in MatchingTypes : returned <= j
        /\ MatchingTypes = {} => returned = 0

\* Two types match, type 0 is not one of them although it has the filter bit
\* and some of the requested properties, and the smaller matching index was
\* returned.
FindMemoryTypeFirstMatchWitness ==
    /\ pc = "returned"
    /\ call.fn = "FindMemoryType"
    /\ Cardinality(MatchingTypes) >= 2
    /\ 0 \notin MatchingTypes
    /\ call.typeFilter % 2 = 1
    /\ call.memoryTypes[0] \cap call.properties # {}
    /\ returned = 1

\* ---------------------------------------------------------------- C22
\* C22: while an App's Run is in progress no Run of another App is in progress
\* (a call of Run on another App returned at the guard), and App::Get()
\* returns the running application.
RunningAppIsInstance ==
    runStack # <<>> =>
        /\ \A i \in 1..Len(runStack) : runStack[i] = runStack[1]
        /\ Get = runStack[1]

\* The part of C22 that the code keeps: a call of Run made while _instance is
\* set returns at the guard.
RunRejectedWhileInstanceSet ==
    [][\A a \in Apps : (App_Run(a) /\ _instance # 0) => runStack' = runStack]_vars

\* A Run is in progress and a call of Run on another App has returned at the
\* guard.
RunRejectedWhileInstanceSetWitness ==
    /\ runStack # <<>>
    /\ lastRun.app \in Apps
    /\ lastRun.app # runStack[1]
    /\ ~lastRun.entered

\* ---------------------------------------------------------------- C23
\* The step in which vkAcquireNextImageKHR returns and BeginFrame runs to its
\* return statement.
AcquireReturns == pc = "bf_acquire" /\ pc' = "bf_ret"

\* C23 (amended): a BeginFrame that returns true has recorded in its frame slot
\* the acquire and render-finished semaphores at the pool index
\* m_CurrentSemaphoreIndex had before the call, and has moved the index to
\* (old + 1) mod pool size, whatever m_CurrentFrame and the image index are; a
\* BeginFrame whose acquire fails with an error other than OUT_OF_DATE leaves
\* the index as it was; one whose acquire returns OUT_OF_DATE leaves it at 0,
\* where RecreateSwapchain puts it.
SemaphorePairRotates ==
    [][/\ (AcquireReturns /\ beginResult' = "true") =>
            /\ m_Frames'[m_CurrentFrame].imageAvailableSemaphore =
                   m_ImageAvailableSemaphores[m_CurrentSemaphoreIndex]
            /\ m_Frames'[m_CurrentFrame].renderFinishedSemaphore =
                   m_RenderFinishedSemaphores[m_CurrentSemaphoreIndex]
            /\ m_CurrentSemaphoreIndex' =
                   (m_CurrentSemaphoreIndex + 1) % Size(m_ImageAvailableSemaphores)
       /\ (AcquireReturns /\ acquireResult' \notin {"SUCCESS", "SUBOPTIMAL"}) =>
            m_CurrentSemaphoreIndex' = m_CurrentSemaphoreIndex
       /\ (pc = "rc_ret" /\ caller = "BeginFrame" /\ pc' = "bf_ret") =>
            /\ acquireResult = "OUT_OF_DATE"
            /\ m_CurrentSemaphoreIndex' = 0]_vars

\* A BeginFrame has returned true with the index wrapped around to 0, in a slot
\* and with an image whose indices differ from each other and from the pool
\* index the pair was taken from.
SemaphorePairRotatesWitness ==
    /\ pc = "bf_ret"
    /\ beginResult = "true"
    /\ m_CurrentSemaphoreIndex = 0
    /\ m_CurrentFrame # m_CurrentImageIndex
    /\ m_CurrentFrame # Size(m_ImageAvailableSemaphores) - 1
    /\ m_CurrentImageIndex # Size(m_ImageAvailableSemaphores) - 1

\* C23 as stated: ... and no step of a BeginFrame whose acquire failed changes
\* m_CurrentSemaphoreIndex.
FailedAcquireKeepsIndex ==
    [][((pc = "bf_acquire" \/ caller = "BeginFrame")
            /\ acquireResult' \notin {"SUCCESS", "SUBOPTIMAL"}
            /\ pc' \in {"bf_ret", "rc_read", "rc_waitevents", "rc_idle", "rc_ret"})
          => m_CurrentSemaphoreIndex' = m_CurrentSemaphoreIndex]_vars

\* ---------------------------------------------------------------- C24
\* RecreateSwapchain is running: between its entry and its return.
InRecreateSwapchain == pc \in {"rc_read", "rc_waitevents", "rc_idle", "rc_ret"}

\* C24: while RecreateSwapchain runs, no frame slot's command buffer is in the
\* recording state.
RecreateExcludesRecording == InRecreateSwapchain => recording = {}

\* RecreateSwapchain was entered from EndFrame after a frame was recorded, and
\* a window event arrived meanwhile.
RecreateExcludesRecordingWitness ==
    /\ InRecreateSwapchain
    /\ caller = "EndFrame"
    /\ beginCmdOk
    /\ eventPending
    /\ recording = {}

\* A frame is being recorded while a resize event waits: the event is not
\* dispatched before the frame ends.
RecordingWithResizePending ==
    /\ recording # {}
    /\ eventPending
    /\ ~InRecreateSwapchain

\* ---------------------------------------------------------------- C25
\* The step in which RecreateSwapchain or Cleanup tears the bundle down.
TeardownStep ==
    \/ pc = "rc_idle" /\ pc' = "rc_ret"
    \/ pc = "shutdown" /\ pc' = "destruct" /\ device # 0
\* Kind a was destroyed before kind b in the latest teardown.
DestroyedBefore(a, b) ==
    \E i, j \in 1..Len(vk.order) : i < j /\ vk.order[i] = a /\ vk.order[j] = b

\* C25 (amended): every teardown of the bundle happens with the device idle
\* and destroys the framebuffers, then the render pass, then the image views,
\* then the swapchain; none of these, nor the depth image or its memory, is
\* destroyed while an object that refers to it is alive.  (The depth image
\* view is destroyed first, while the framebuffers that have it as an
\* attachment are alive.)
TeardownOrder ==
    [][TeardownStep =>
          /\ gpuQueue = <<>>
          /\ DestroyedBefore("framebuffer", "renderPass")'
          /\ DestroyedBefore("renderPass", "imageView")'
          /\ DestroyedBefore("imageView", "swapchain")'
          /\ vk'.early \subseteq {"depthView"}]_vars

\* A RecreateSwapchain has torn down a bundle that frames had been submitted
\* with.
TeardownOrderWitness ==
    /\ pc = "rc_ret"
    /\ frameNo >= 1
    /\ Len(vk.order) >= 7
    /\ vk.order[4] = "framebuffer"
    /\ vk.order[7] = "swapchain"

\* C25 as stated: ... and no object at all is destroyed while an object that
\* refers to it is alive.
TeardownNothingReferenced ==
    [][TeardownStep =>
          /\ gpuQueue = <<>>
          /\ DestroyedBefore("framebuffer", "renderPass")'
          /\ DestroyedBefore("renderPass", "imageView")'
          /\ DestroyedBefore("imageView", "swapchain")'
          /\ vk'.early = {}]_vars

\* ---------------------------------------------------------------- C26
\* The widget's size changes in this step.
SizeChanges == _width' # _width \/ _height' # _height

OnRenderFrameTargetCurrent ==
    onRenderFrame.invoked =>
        /\ ~onRenderFrame.needsResize
        /\ onRenderFrame.targetWidth = onRenderFrame.width
        /\ onRenderFrame.targetHeight = onRenderFrame.height

\* The part of C30 that the code keeps: when Render calls OnRenderUpdate, no
\* resize is pending and the render target has the widget's width and height.
TargetCurrentAfterResizeCheck ==
    wpc = "update" =>
        /\ ~_needsResize
        /\ renderTarget.live
        /\ renderTarget.width = _width /\ renderTarget.height = _height

\* Render is about to call OnRenderUpdate on a widget that was resized before
\* it was initialized and again after.
TargetCurrentAfterResizeCheckWitness ==
    /\ wpc = "update"
    /\ renderTarget.gen = 0
    /\ renderTarget.width = 64

\* ---------------------------------------------------------------- C27
\* C27: a fence that a BeginFrame waits on is signalled or belongs to a batch
\* on the queue, which will signal it: every fence that was reset has been
\* passed to a queue submit before a BeginFrame waits on it, so the wait ends
\* once the GPU has completed the batches submitted.
WaitedFenceWasSubmitted ==
    pc = "bf_wait" =>
        \/ fenceSignaled[m_CurrentFrame]
        \/ \E i \in 1..Len(gpuQueue) : gpuQueue[i].slot = m_CurrentFrame

\* ---------------------------------------------------------------- C28
\* C28: when EndFrame runs (and so when it submits and presents), the acquire
\* and render-finished semaphores stored in the current frame slot are
\* non-null, are members of the current pools and are alive.
SubmitSemaphoresLive ==
    pc = "ef" =>
        LET frame == m_Frames[m_CurrentFrame]
        IN /\ frame.imageAvailableSemaphore > 0
           /\ frame.imageAvailableSemaphore \in Handles(m_ImageAvailableSemaphores)
           /\ frame.imageAvailableSemaphore \in vk.live["imageAvailable"]
           /\ frame.renderFinishedSemaphore > 0
           /\ frame.renderFinishedSemaphore \in Handles(m_RenderFinishedSemaphores)
           /\ frame.renderFinishedSemaphore \in vk.live["renderFinished"]

\* EndFrame runs after failed frames and a recreation: another slot still
\* stores semaphores that the recreation destroyed.
SubmitSemaphoresLiveWitness ==
    /\ pc = "ef"
    /\ ~allOk
    /\ \E s \in DOMAIN m_Frames :
          /\ s # m_CurrentFrame
          /\ m_Frames[s].imageAvailableSemaphore < 0

\* ---------------------------------------------------------------- C29
\* Everything the renderer holds.
RendererState ==
    <<m_Swapchain, m_SwapchainImages, m_SwapchainImageViews, m_Framebuffers, m_RenderPass,
      m_DepthImage, m_DepthImageMemory, m_DepthImageView, m_SwapchainImageFormat,
      m_ImageAvailableSemaphores, m_RenderFinishedSemaphores, m_Frames,
      m_CurrentFrame, m_CurrentSemaphoreIndex, m_CurrentImageIndex, m_FramebufferResized,
      device>>

\* C29: the second Cleanup, made by the destructor after App::Shutdown has
\* called Cleanup, destroys no handle and leaves the renderer as it was.
SecondCleanupDoesNothing ==
    [][(pc = "destruct" /\ pc' = "done") =>
          /\ vk' = vk
          /\ RendererState' = RendererState]_vars

\* The destructor has run its Cleanup on a renderer that had rendered frames,
\* recreated its swapchain and been cleaned up once.
SecondCleanupDoesNothingWitness ==
    /\ pc = "done"
    /\ frameNo >= 2
    /\ Len(vk.order) >= 9
    /\ \A k \in Kinds : vk.live[k] = {}

====
